---- MODULE Spec2Model ----
(***************************************************************************)
(* A model of the EKS resolver of the awsappsignals processor              *)
(* (plugins/processors/awsappsignals/internal/resolver/eks.go): the pod    *)
(* and service watchers, the deferred deleter, the service-to-workload     *)
(* mapper and the lookup / attribute-rewriting hot path.                   *)
(*                                                                         *)
(* Strings are TLA+ strings; the string functions of the code (the         *)
(* "name@namespace" keys, the "HostIP:port" endpoints, the regular         *)
(* expressions) are computed character by character.  A sync.Map is a      *)
(* function whose DOMAIN is the set of stored keys.                        *)
(***************************************************************************)
EXTENDS Integers, Sequences, FiniteSets, TLC

(***************************************************************************)
(* Bounds of the model.                                                    *)
(***************************************************************************)
\* deletionDelay, in minutes: one tick of the clock is one minute.
deletionDelay == 2
\* The number of informer events and periodic mapper runs of one behaviour
\* of Spec and of SpecMap.
MaxEvents == 4
MaxMapEvents == 5
\* The same of one behaviour of SpecHot, and the number of pods of its
\* informer's initial list.
MaxHotEvents == 1
MaxHotSync == 2
\* The number of events and periodic mapper runs of one behaviour of
\* SpecLife, and the number of calls of Stop of one processor.
MaxLifeEvents == 3
MaxStopCalls == 2
\* The number of events and mapper runs of one behaviour of SpecShape.
MaxShapeEvents == 3
\* The same of SpecDump.
MaxDumpEvents == 3
\* The same of SpecPods.
MaxPodEvents == 3

(***************************************************************************)
(* Strings.                                                                *)
(***************************************************************************)
Char(s, i) == SubSeq(s, i, i)

Digits == {"0", "1", "2", "3", "4", "5", "6", "7", "8", "9"}

\* Every character of s[from..to] is in set cs (true of an empty range).
AllIn(s, from, to, cs) == \A i \in from..to : Char(s, i) \in cs

\* The positions of character c in s.
Positions(s, c) == {i \in 1..Len(s) : Char(s, i) = c}

Min(S) == CHOOSE a \in S : \A b \in S : a <= b

\* strconv.Itoa for a non-negative number.
RECURSIVE Itoa(_)
Itoa(n) ==
    LET d == SubSeq("0123456789", (n % 10) + 1, (n % 10) + 1)
    IN IF n < 10 THEN d ELSE Itoa(n \div 10) \o d

kubeAllowedStringAlphaNums ==
    {"b", "c", "d", "f", "g", "h", "j", "k", "l", "m", "n", "p", "q", "r",
     "s", "t", "v", "w", "x", "z", "2", "4", "5", "6", "7", "8", "9"}

\* regexp ^(.+)-[kubeAllowedStringAlphaNums]{n}$ : whether s matches.  The
\* suffix has a fixed length, so the captured group is what precedes it.
SuffixMatch(s, n) ==
    /\ Len(s) >= n + 2
    /\ Char(s, Len(s) - n) = "-"
    /\ AllIn(s, Len(s) - n + 1, Len(s), kubeAllowedStringAlphaNums)

SuffixGroup(s, n) == SubSeq(s, 1, Len(s) - n - 1)

\* strings.Split(s, c) for a one-character separator c.
RECURSIVE Split(_, _)
Split(s, c) ==
    IF Positions(s, c) = {} THEN <<s>>
    ELSE LET i == Min(Positions(s, c))
         IN <<SubSeq(s, 1, i - 1)>> \o Split(SubSeq(s, i + 1, Len(s)), c)

\* The value of a string of decimal digits.
RECURSIVE Atoi(_)
Atoi(s) ==
    IF s = "" THEN 0
    ELSE 10 * Atoi(SubSeq(s, 1, Len(s) - 1))
         + (CHOOSE n \in 0..9 : Itoa(n) = Char(s, Len(s)))

HexDigits ==
    Digits \cup {"a", "b", "c", "d", "e", "f", "A", "B", "C", "D", "E", "F"}

\* One field of a dotted IPv4 address as net.ParseIP reads it: decimal, at
\* most 255, no leading zero.
IPv4Field(f) ==
    /\ Len(f) \in 1..3
    /\ AllIn(f, 1, Len(f), Digits)
    /\ Len(f) > 1 => Char(f, 1) # "0"
    /\ Atoi(f) <= 255

ParseIPv4(s) ==
    LET fields == Split(s, ".")
    IN /\ Len(fields) = 4
       /\ \A i \in 1..4 : IPv4Field(fields[i])

\* An IPv6 address in hexadecimal groups, with at most one "::" (the forms
\* with a dotted IPv4 tail or a zone are not modelled).
ParseIPv6(s) ==
    LET groups == Split(s, ":")
        n == Len(groups)
        empty == {i \in 1..n : groups[i] = ""}
        \* "::" at the start or the end splits into two empty groups
        inner == {i \in empty : 1 < i /\ i < n}
        hex(g) == Len(g) \in 1..4 /\ AllIn(g, 1, Len(g), HexDigits)
    IN /\ n >= 3
       /\ \A i \in (1..n) \ empty : hex(groups[i])
       /\ 1 \in empty => 2 \in empty
       /\ n \in empty => (n - 1) \in empty
       /\ IF empty = {} THEN n = 8
          ELSE /\ Cardinality(inner) = 1 \/ (n = 3 /\ empty = {1, 2, 3})
               /\ Cardinality((1..n) \ empty) <= 7

\* isIP: net.ParseIP(s) != nil.  The first '.' or ':' of s chooses the
\* parser.
isIP(s) ==
    LET seps == Positions(s, ".") \cup Positions(s, ":")
    IN /\ seps # {}
       /\ IF Char(s, Min(seps)) = "." THEN ParseIPv4(s) ELSE ParseIPv6(s)

\* IP_PORT_PATTERN ^(\d{1,3}\.\d{1,3}\.\d{1,3}\.\d{1,3}):(\d+)$
\* <<ip, port, ok>>.
extractIPPort(ipPort) ==
    LET parts == Split(ipPort, ":")
        fields == Split(parts[1], ".")
        match == /\ Len(parts) = 2
                 /\ Len(parts[2]) >= 1
                 /\ AllIn(parts[2], 1, Len(parts[2]), Digits)
                 /\ Len(fields) = 4
                 /\ \A i \in 1..4 : /\ Len(fields[i]) \in 1..3
                                    /\ AllIn(fields[i], 1, Len(fields[i]),
                                             Digits)
    IN IF match THEN <<parts[1], parts[2], TRUE>> ELSE <<"", "", FALSE>>

attachNamespace(resourceName, namespace) == resourceName \o "@" \o namespace

\* strings.Split(s, "@") must give exactly two parts.
extractResourceAndNamespace(s) ==
    LET at == Positions(s, "@")
    IN IF Cardinality(at) # 1
       THEN <<"", "">>
       ELSE LET i == Min(at)
            IN <<SubSeq(s, 1, i - 1), SubSeq(s, i + 1, Len(s))>>

\* The empty string stands for the error return.
extractWorkloadNameFromRS(replicaSetName) ==
    IF SuffixMatch(replicaSetName, 10) THEN SuffixGroup(replicaSetName, 10)
    ELSE ""

extractWorkloadNameFromPodName(podName) ==
    IF SuffixMatch(podName, 5) THEN SuffixGroup(podName, 5) ELSE ""

\* What one owner reference yields ("" when nothing).
OwnerYield(ownerRef, pod) ==
    IF ownerRef.kind = "ReplicaSet"
    THEN IF extractWorkloadNameFromRS(ownerRef.name) # ""
         THEN attachNamespace(extractWorkloadNameFromRS(ownerRef.name),
                              pod.namespace)
         ELSE IF extractWorkloadNameFromPodName(pod.name) # ""
         THEN attachNamespace(extractWorkloadNameFromPodName(pod.name),
                              pod.namespace)
         ELSE ""
    ELSE IF ownerRef.kind \in {"StatefulSet", "DaemonSet"}
    THEN attachNamespace(ownerRef.name, pod.namespace)
    ELSE ""

\* A loop that looks at one owner reference and no further.
OwnersFromOneOnly(pod, i) ==
    IF i > Len(pod.owners) THEN "" ELSE OwnerYield(pod.owners[i], pod)

RECURSIVE OwnersFrom(_, _)
OwnersFrom(pod, i) ==
    IF i > Len(pod.owners) THEN ""
    ELSE IF OwnerYield(pod.owners[i], pod) # ""
    THEN OwnerYield(pod.owners[i], pod)
    ELSE OwnersFrom(pod, i + 1)

getWorkloadAndNamespace(pod) == OwnersFrom(pod, 1)

\* A Go map[string]string of labels or selectors as the set of "key=value".
LabelSet(labels) == {kv[1] \o "=" \o kv[2] : kv \in labels}

(***************************************************************************)
(* sync.Map and the plain count map.                                       *)
(***************************************************************************)
EmptyMap == [k \in {} |-> k]

Has(m, k) == k \in DOMAIN m

MapStore(m, k, v) == [y \in DOMAIN m \cup {k} |-> IF y = k THEN v ELSE m[y]]

MapDelete(m, k) == [y \in DOMAIN m \ {k} |-> m[y]]

\* Reading a Go map[string]int gives 0 for a missing key.
Count(m, k) == IF k \in DOMAIN m THEN m[k] ELSE 0

(***************************************************************************)
(* State.                                                                  *)
(***************************************************************************)
VARIABLES
    ipToPod,                        \* endpoint -> pod name
    podToWorkloadAndNamespace,      \* pod name -> "workload@namespace"
    workloadAndNamespaceToLabels,   \* "workload@namespace" -> label set
    workloadPodCount,               \* "workload@namespace" -> int
    ipToServiceAndNamespace,        \* ClusterIP -> "service@namespace"
    serviceAndNamespaceToSelectors, \* "service@namespace" -> label set
    serviceToWorkload,              \* "service@namespace" -> "workload@namespace"
    pending,    \* the sleeping goroutines of TimedDeleter.DeleteWithDelay
    pods,       \* the pod informer's store: <<namespace, name>> -> pod
    services,   \* the service informer's store
    budget,     \* events and periodic mapper runs still to come
    lastRun,    \* what the mapper run that has just completed found
    onlyAdds,   \* no Update or Delete event has been delivered so far
    attributes, \* the attribute bag of the telemetry item being processed
    proc,       \* the frame of the call of Process on it
    life        \* once, instance, the stop channel, the callers and the loops

vars == <<ipToPod, podToWorkloadAndNamespace, workloadAndNamespaceToLabels,
          workloadPodCount, ipToServiceAndNamespace,
          serviceAndNamespaceToSelectors, serviceToWorkload, pending, pods,
          services, budget, lastRun, onlyAdds, attributes, proc, life>>

\* What the watchers, the mapper and the deleter write; what Process writes.
indexes == <<ipToPod, podToWorkloadAndNamespace, workloadAndNamespaceToLabels,
             workloadPodCount, ipToServiceAndNamespace,
             serviceAndNamespaceToSelectors, serviceToWorkload>>

hot == <<attributes, proc>>

\* The indexes and the deleter's goroutines, as one value a handler works on
\* statement by statement; who names the running handler.
Cur(who) ==
    [ipToPod |-> ipToPod,
     podToWorkloadAndNamespace |-> podToWorkloadAndNamespace,
     workloadAndNamespaceToLabels |-> workloadAndNamespaceToLabels,
     workloadPodCount |-> workloadPodCount,
     ipToServiceAndNamespace |-> ipToServiceAndNamespace,
     serviceAndNamespaceToSelectors |-> serviceAndNamespaceToSelectors,
     serviceToWorkload |-> serviceToWorkload,
     pending |-> pending,
     who |-> who]

\* The state a handler leaves.
Install(st) ==
    /\ ipToPod' = st.ipToPod
    /\ podToWorkloadAndNamespace' = st.podToWorkloadAndNamespace
    /\ workloadAndNamespaceToLabels' = st.workloadAndNamespaceToLabels
    /\ workloadPodCount' = st.workloadPodCount
    /\ ipToServiceAndNamespace' = st.ipToServiceAndNamespace
    /\ serviceAndNamespaceToSelectors' = st.serviceAndNamespaceToSelectors
    /\ serviceToWorkload' = st.serviceToWorkload
    /\ pending' = st.pending

\* A store that wakes no goroutine but cancels those sleeping on its key.
StoreCancelling(st, m, key, value) ==
    [st EXCEPT ![m] = MapStore(@, key, value),
               !.pending = {d \in @ : ~(d.m = m /\ d.k = key)}]

\* m.Store(key, value) on the index named m.
Store(st, m, key, value) == [st EXCEPT ![m] = MapStore(@, key, value)]

(***************************************************************************)
(* The deferred deleter.  A goroutine sleeps deletionDelay and then        *)
(* deletes the key: pending holds one record per sleeping goroutine, with  *)
(* the time it has slept.  by, first and had record, for the properties,   *)
(* which handler scheduled it, whether no deletion of the same key was     *)
(* already pending, and whether the key was stored at that moment.         *)
(***************************************************************************)
DeleteWithDelay(st, m, key) ==
    [st EXCEPT !.pending =
        @ \cup {[m |-> m, k |-> key, age |-> 0, by |-> st.who,
                 first |-> ~\E d \in st.pending : d.m = m /\ d.k = key,
                 had |-> Has(st[m], key)]}]

\* DeleteWithDelay for every key of a set (the keys are distinct, so the
\* order of the loop does not matter).
RECURSIVE DeleteAllWithDelay(_, _, _)
DeleteAllWithDelay(st, m, keys) ==
    IF keys = {} THEN st
    ELSE LET key == CHOOSE k \in keys : TRUE
         IN DeleteAllWithDelay(DeleteWithDelay(st, m, key), m, keys \ {key})

RECURSIVE StoreAll(_, _, _, _)
StoreAll(st, m, keys, value) ==
    IF keys = {} THEN st
    ELSE LET key == CHOOSE k \in keys : TRUE
         IN StoreAll(Store(st, m, key, value), m, keys \ {key}, value)

(***************************************************************************)
(* The pod watcher.                                                        *)
(***************************************************************************)
\* The same without the test of HostPort against 0.
getHostNetworkPortsWithZero(pod) ==
    IF ~pod.hostNetwork THEN <<>>
    ELSE [i \in 1..Len(pod.hostPorts) |-> Itoa(pod.hostPorts[i])]

\* The HostPort of every container port, in order, as decimal strings; none
\* for a pod that does not use the host network.
getHostNetworkPorts(pod) ==
    IF ~pod.hostNetwork THEN <<>>
    ELSE LET declared == SelectSeq(pod.hostPorts, LAMBDA p : p # 0)
         IN [i \in 1..Len(declared) |-> Itoa(declared[i])]

\* The keys HostIP + ":" + port over getHostNetworkPorts.
HostIPPorts(pod) ==
    {pod.hostIP \o ":" \o getHostNetworkPorts(pod)[i] :
        i \in 1..Len(getHostNetworkPorts(pod))}

removeHostNetworkRecords(st, pod) ==
    DeleteAllWithDelay(st, "ipToPod", HostIPPorts(pod))

updateHostNetworkRecords(st, newPod, oldPod) ==
    LET newHostIPPorts == HostIPPorts(newPod)
        oldHostIPPorts == HostIPPorts(oldPod)
        st1 == DeleteAllWithDelay(st, "ipToPod",
                                  oldHostIPPorts \ newHostIPPorts)
    IN StoreAll(st1, "ipToPod", newHostIPPorts \ oldHostIPPorts, newPod.name)

\* An Add that files a pod of the pod network under its host's address:
\* C6_EndToEnd tells it from handlePodAdd.
handlePodAddUnderHostIP(st, pod) ==
    IF pod.hostNetwork
    THEN StoreAll(st, "ipToPod", HostIPPorts(pod), pod.name)
    ELSE IF pod.podIP # ""
    THEN Store(st, "ipToPod", pod.hostIP, pod.name)
    ELSE st

handlePodAdd(st, pod) ==
    IF pod.hostNetwork
    THEN StoreAll(st, "ipToPod", HostIPPorts(pod), pod.name)
    ELSE IF pod.podIP # ""
    THEN Store(st, "ipToPod", pod.podIP, pod.name)
    ELSE st

\* An Update that stores the new endpoints and leaves the old ones alone.
handlePodUpdateAsAdd(st, newPod, oldPod) == handlePodAdd(st, newPod)

handlePodUpdate(st, newPod, oldPod) ==
    IF oldPod.hostNetwork /\ newPod.hostNetwork
    THEN updateHostNetworkRecords(st, newPod, oldPod)
    ELSE IF oldPod.hostNetwork /\ ~newPod.hostNetwork
    THEN LET st1 == removeHostNetworkRecords(st, oldPod)
         IN IF newPod.podIP # ""
            THEN Store(st1, "ipToPod", newPod.podIP, newPod.name)
            ELSE st1
    ELSE IF ~oldPod.hostNetwork /\ newPod.hostNetwork
    THEN LET st1 == IF oldPod.podIP # ""
                    THEN DeleteWithDelay(st, "ipToPod", oldPod.podIP)
                    ELSE st
         IN StoreAll(st1, "ipToPod", HostIPPorts(newPod), newPod.name)
    ELSE IF /\ ~oldPod.hostNetwork
            /\ ~newPod.hostNetwork
            /\ oldPod.podIP # newPod.podIP
    THEN LET st1 == IF oldPod.podIP # ""
                    THEN DeleteWithDelay(st, "ipToPod", oldPod.podIP)
                    ELSE st
         IN IF newPod.podIP # ""
            THEN Store(st1, "ipToPod", newPod.podIP, newPod.name)
            ELSE st1
    ELSE st

\* oldPod is read only when isAdd is false.
onAddOrUpdatePod(st, pod, oldPod, isAdd) ==
    LET st1 == IF isAdd THEN handlePodAdd(st, pod)
               ELSE handlePodUpdate(st, pod, oldPod)
        workloadAndNamespace == getWorkloadAndNamespace(pod)
        podLabels == LabelSet(pod.labels)
    IN IF workloadAndNamespace = "" THEN st1
       ELSE LET st2 == Store(st1, "podToWorkloadAndNamespace", pod.name,
                             workloadAndNamespace)
                st3 == IF Cardinality(podLabels) > 0
                       THEN Store(st2, "workloadAndNamespaceToLabels",
                                  workloadAndNamespace, podLabels)
                       ELSE st2
            IN IF isAdd
               THEN Store(st3, "workloadPodCount", workloadAndNamespace,
                          Count(st3.workloadPodCount, workloadAndNamespace) + 1)
               ELSE st3

\* A Delete that schedules the labels whenever it knows the pod's workload.
onDeletePodAtAnyCount(st, pod) ==
    LET st1 == IF pod.podIP # ""
               THEN DeleteWithDelay(st, "ipToPod", pod.podIP)
               ELSE IF pod.hostIP # ""
               THEN DeleteAllWithDelay(st, "ipToPod", HostIPPorts(pod))
               ELSE st
        st2 == IF Has(st1.podToWorkloadAndNamespace, pod.name)
               THEN LET workloadAndNamespace ==
                            st1.podToWorkloadAndNamespace[pod.name]
                    IN DeleteWithDelay(
                           Store(st1, "workloadPodCount",
                                 workloadAndNamespace,
                                 Count(st1.workloadPodCount,
                                       workloadAndNamespace) - 1),
                           "workloadAndNamespaceToLabels",
                           workloadAndNamespace)
               ELSE st1
    IN DeleteWithDelay(st2, "podToWorkloadAndNamespace", pod.name)

onDeletePod(st, pod) ==
    LET st1 == IF pod.podIP # ""
               THEN DeleteWithDelay(st, "ipToPod", pod.podIP)
               ELSE IF pod.hostIP # ""
               THEN DeleteAllWithDelay(st, "ipToPod", HostIPPorts(pod))
               ELSE st
        st2 == IF Has(st1.podToWorkloadAndNamespace, pod.name)
               THEN LET workloadAndNamespace ==
                            st1.podToWorkloadAndNamespace[pod.name]
                        st1a == Store(st1, "workloadPodCount",
                                      workloadAndNamespace,
                                      Count(st1.workloadPodCount,
                                            workloadAndNamespace) - 1)
                    IN IF st1a.workloadPodCount[workloadAndNamespace] = 0
                       THEN DeleteWithDelay(st1a,
                                "workloadAndNamespaceToLabels",
                                workloadAndNamespace)
                       ELSE st1a
               ELSE st1
    IN DeleteWithDelay(st2, "podToWorkloadAndNamespace", pod.name)

(***************************************************************************)
(* The service watcher.                                                    *)
(***************************************************************************)
getServiceAndNamespace(service) ==
    attachNamespace(service.name, service.namespace)

onAddOrUpdateService(st, service) ==
    LET st1 == IF service.clusterIP # "" /\ service.clusterIP # "None"
               THEN Store(st, "ipToServiceAndNamespace", service.clusterIP,
                          getServiceAndNamespace(service))
               ELSE st
        labelSet == LabelSet(service.selector)
    IN IF Cardinality(labelSet) > 0
       THEN Store(st1, "serviceAndNamespaceToSelectors",
                  getServiceAndNamespace(service), labelSet)
       ELSE st1

\* A Delete that schedules the deletion of whatever ClusterIP holds.
onDeleteServiceOfAnyIP(st, service) ==
    DeleteWithDelay(DeleteWithDelay(st, "ipToServiceAndNamespace",
                                    service.clusterIP),
                    "serviceAndNamespaceToSelectors",
                    getServiceAndNamespace(service))

onDeleteService(st, service) ==
    LET st1 == IF service.clusterIP # "" /\ service.clusterIP # "None"
               THEN DeleteWithDelay(st, "ipToServiceAndNamespace",
                                    service.clusterIP)
               ELSE st
    IN DeleteWithDelay(st1, "serviceAndNamespaceToSelectors",
                       getServiceAndNamespace(service))

(***************************************************************************)
(* The service-to-workload mapper.                                         *)
(***************************************************************************)
\* A match that does not compare namespaces: C4_SubsetMapping tells it from
\* MatchingWorkloads.
MatchingWorkloadsOfAnyNamespace(st, serviceAndNamespace) ==
    LET serviceLabels == st.serviceAndNamespaceToSelectors[serviceAndNamespace]
    IN {w \in DOMAIN st.workloadAndNamespaceToLabels :
           serviceLabels \subseteq st.workloadAndNamespaceToLabels[w]}

\* The workloads the inner Range collects for a service.
MatchingWorkloads(st, serviceAndNamespace) ==
    LET serviceNamespace == extractResourceAndNamespace(serviceAndNamespace)[2]
        serviceLabels == st.serviceAndNamespaceToSelectors[serviceAndNamespace]
    IN {w \in DOMAIN st.workloadAndNamespaceToLabels :
           LET workloadNamespace == extractResourceAndNamespace(w)[2]
           IN /\ workloadNamespace = serviceNamespace
              /\ workloadNamespace # ""
              /\ serviceLabels \subseteq st.workloadAndNamespaceToLabels[w]}

\* A body that treats several matches as none.
MapOneServiceAmbiguousAsNone(st, serviceAndNamespace) ==
    LET workloads == MatchingWorkloads(st, serviceAndNamespace)
    IN IF Cardinality(workloads) = 1
       THEN Store(st, "serviceToWorkload", serviceAndNamespace,
                  CHOOSE w \in workloads : TRUE)
       ELSE DeleteWithDelay(st, "serviceToWorkload", serviceAndNamespace)

\* A body that also puts a time limit on what it stores.
MapOneServiceWithTimeLimit(st, serviceAndNamespace) ==
    LET workloads == MatchingWorkloads(st, serviceAndNamespace)
    IN IF Cardinality(workloads) > 1 THEN st
       ELSE IF Cardinality(workloads) = 1
       THEN DeleteWithDelay(Store(st, "serviceToWorkload",
                                  serviceAndNamespace,
                                  CHOOSE w \in workloads : TRUE),
                            "serviceToWorkload", serviceAndNamespace)
       ELSE DeleteWithDelay(st, "serviceToWorkload", serviceAndNamespace)

\* The body of the outer Range for one service.
MapOneService(st, serviceAndNamespace) ==
    LET workloads == MatchingWorkloads(st, serviceAndNamespace)
    IN IF Cardinality(workloads) > 1 THEN st
       ELSE IF Cardinality(workloads) = 1
       THEN Store(st, "serviceToWorkload", serviceAndNamespace,
                  CHOOSE w \in workloads : TRUE)
       ELSE DeleteWithDelay(st, "serviceToWorkload", serviceAndNamespace)

\* The outer Range: each service touches only its own key of
\* serviceToWorkload, so the order of the iteration does not matter.
RECURSIVE MapServices(_, _)
MapServices(st, todo) ==
    IF todo = {} THEN st
    ELSE LET s == CHOOSE x \in todo : TRUE
         IN MapServices(MapOneService(st, s), todo \ {s})

MapServiceToWorkload(st) ==
    MapServices(st, DOMAIN st.serviceAndNamespaceToSelectors)

(***************************************************************************)
(* The lookup.                                                             *)
(***************************************************************************)
NotFound == <<"", "", FALSE>>

\* <<workload, namespace, TRUE>>, or NotFound for the error return.
GetWorkloadAndNamespaceByIP(st, ip) ==
    IF /\ Has(st.ipToPod, ip)
       /\ Has(st.podToWorkloadAndNamespace, st.ipToPod[ip])
    THEN LET r == extractResourceAndNamespace(
                      st.podToWorkloadAndNamespace[st.ipToPod[ip]])
         IN <<r[1], r[2], TRUE>>
    ELSE IF /\ Has(st.ipToServiceAndNamespace, ip)
            /\ Has(st.serviceToWorkload, st.ipToServiceAndNamespace[ip])
    THEN LET r == extractResourceAndNamespace(
                      st.serviceToWorkload[st.ipToServiceAndNamespace[ip]])
         IN <<r[1], r[2], TRUE>>
    ELSE NotFound

(***************************************************************************)
(* Process: the attribute rewriting of one telemetry item.  Every Load of  *)
(* a sync.Map is a step of its own; the watchers, the mapper and the       *)
(* deleter run between the steps.                                          *)
(***************************************************************************)
AttributeRemoteService == "aws.remote.service"

AttributeRemoteNamespace == "aws.remote.namespace"

\* attributes.PutStr(key, value)
PutStr(bag, key, value) == MapStore(bag, key, value)

\* The frame of Process: pc is the Load to do next; site is the call of
\* GetWorkloadAndNamespaceByIP that is running ("full": on the whole value,
\* "ip": on ipStr), arg its argument, pod and svc what it has loaded; ip is
\* the address extractIPPort found; calls lists the finished calls with
\* their results, entry is the bag as it was passed, err the value returned.
Idle ==
    [pc |-> "idle", site |-> "", arg |-> "", ip |-> "", pod |-> "",
     svc |-> "", calls |-> <<>>, entry |-> EmptyMap, err |-> ""]

\* A pair of an attribute bag and a frame.
Frame(bag, f) == [attributes |-> bag, proc |-> f]

\* return nil
ProcessReturn(fr) == Frame(fr.attributes, [fr.proc EXCEPT !.pc = "done",
                                                         !.err = "nil"])

\* A call of GetWorkloadAndNamespaceByIP(ip) begins.
LookupCall(fr, site, ip) ==
    Frame(fr.attributes, [fr.proc EXCEPT !.pc = "loadPod", !.site = site,
                                         !.arg = ip, !.pod = "", !.svc = ""])

\* A Process that looks up the address of an IP:port value first:
\* C9_LookupOrder tells it from ProcessEnter.
ProcessEnterAddressFirst(bag) ==
    LET fr == Frame(bag, [Idle EXCEPT !.entry = bag])
    IN IF ~Has(bag, AttributeRemoteService) THEN ProcessReturn(fr)
       ELSE LET valueStr == bag[AttributeRemoteService]
            IN IF extractIPPort(valueStr)[3]
               THEN LookupCall(
                        Frame(bag, [fr.proc EXCEPT !.ip = valueStr]),
                        "full", extractIPPort(valueStr)[1])
               ELSE IF isIP(valueStr)
               THEN LookupCall(fr, "ip", valueStr)
               ELSE ProcessReturn(fr)

\* A Process that looks up whatever the value is: C10_EnrichFrame tells it
\* from ProcessEnter.
ProcessEnterAnyValue(bag) ==
    LET fr == Frame(bag, [Idle EXCEPT !.entry = bag])
    IN IF ~Has(bag, AttributeRemoteService) THEN ProcessReturn(fr)
       ELSE LET valueStr == bag[AttributeRemoteService]
            IN IF extractIPPort(valueStr)[3]
               THEN LookupCall(
                        Frame(bag, [fr.proc EXCEPT
                                        !.ip = extractIPPort(valueStr)[1]]),
                        "full", valueStr)
               ELSE LookupCall(fr, "ip", valueStr)

\* Process up to its first Load.
ProcessEnter(bag) ==
    LET fr == Frame(bag, [Idle EXCEPT !.entry = bag])
    IN IF ~Has(bag, AttributeRemoteService) THEN ProcessReturn(fr)
       ELSE LET valueStr == bag[AttributeRemoteService]
            IN IF extractIPPort(valueStr)[3]
               THEN LookupCall(
                        Frame(bag, [fr.proc EXCEPT
                                        !.ip = extractIPPort(valueStr)[1]]),
                        "full", valueStr)
               ELSE IF isIP(valueStr)
               THEN LookupCall(fr, "ip", valueStr)
               ELSE ProcessReturn(fr)

\* A Process that leaves the value after the last miss: C8_EnrichOnMiss
\* tells it from LookupReturn.
LookupReturnWithoutSentinel(fr, r) ==
    LET done == Frame(fr.attributes,
                      [fr.proc EXCEPT
                           !.calls = Append(@, [arg |-> fr.proc.arg,
                                                result |-> r])])
        put == Frame(PutStr(PutStr(fr.attributes, AttributeRemoteService,
                                   r[1]),
                            AttributeRemoteNamespace, r[2]),
                     done.proc)
    IN IF fr.proc.site = "full"
       THEN IF r[3] THEN ProcessReturn(put)
            ELSE IF fr.proc.ip # "" THEN LookupCall(done, "ip", fr.proc.ip)
            ELSE ProcessReturn(done)
       ELSE IF r[3] THEN ProcessReturn(put)
            ELSE ProcessReturn(done)

\* The running call returns r: what Process does with it, up to its next
\* Load or its return.
LookupReturn(fr, r) ==
    LET done == Frame(fr.attributes,
                      [fr.proc EXCEPT
                           !.calls = Append(@, [arg |-> fr.proc.arg,
                                                result |-> r])])
        put == Frame(PutStr(PutStr(fr.attributes, AttributeRemoteService,
                                   r[1]),
                            AttributeRemoteNamespace, r[2]),
                     done.proc)
    IN IF fr.proc.site = "full"
       THEN IF r[3] THEN ProcessReturn(put)
            ELSE IF fr.proc.ip # "" THEN LookupCall(done, "ip", fr.proc.ip)
            ELSE ProcessReturn(done)
       ELSE IF r[3] THEN ProcessReturn(put)
            ELSE ProcessReturn(
                     Frame(PutStr(fr.attributes, AttributeRemoteService,
                                  "UnknownRemoteService"),
                           done.proc))

Found(workloadKey) ==
    <<extractResourceAndNamespace(workloadKey)[1],
      extractResourceAndNamespace(workloadKey)[2], TRUE>>

\* e.ipToPod.Load(ip)
LoadPod(st, fr) ==
    IF Has(st.ipToPod, fr.proc.arg)
    THEN Frame(fr.attributes,
               [fr.proc EXCEPT !.pc = "loadWorkload",
                               !.pod = st.ipToPod[fr.proc.arg]])
    ELSE Frame(fr.attributes, [fr.proc EXCEPT !.pc = "loadService"])

\* A second Load that answers without a hit: C2_NeverAWrongAnswer tells it
\* from LoadWorkload.
LoadWorkloadUnchecked(st, fr) ==
    IF Has(st.podToWorkloadAndNamespace, fr.proc.pod)
    THEN LookupReturn(fr, Found(st.podToWorkloadAndNamespace[fr.proc.pod]))
    ELSE LookupReturn(fr, Found(attachNamespace(fr.proc.pod, "")))

\* e.podToWorkloadAndNamespace.Load(pod)
LoadWorkload(st, fr) ==
    IF Has(st.podToWorkloadAndNamespace, fr.proc.pod)
    THEN LookupReturn(fr, Found(st.podToWorkloadAndNamespace[fr.proc.pod]))
    ELSE Frame(fr.attributes, [fr.proc EXCEPT !.pc = "loadService"])

\* e.ipToServiceAndNamespace.Load(ip)
LoadService(st, fr) ==
    IF Has(st.ipToServiceAndNamespace, fr.proc.arg)
    THEN Frame(fr.attributes,
               [fr.proc EXCEPT !.pc = "loadServiceWorkload",
                               !.svc = st.ipToServiceAndNamespace[fr.proc.arg]])
    ELSE LookupReturn(fr, NotFound)

\* e.serviceToWorkload.Load(serviceAndNamespace)
LoadServiceWorkload(st, fr) ==
    IF Has(st.serviceToWorkload, fr.proc.svc)
    THEN LookupReturn(fr, Found(st.serviceToWorkload[fr.proc.svc]))
    ELSE LookupReturn(fr, NotFound)

\* The next Load of the running call.
LookupStep(st, fr) ==
    CASE fr.proc.pc = "loadPod" -> LoadPod(st, fr)
      [] fr.proc.pc = "loadWorkload" -> LoadWorkload(st, fr)
      [] fr.proc.pc = "loadService" -> LoadService(st, fr)
      [] fr.proc.pc = "loadServiceWorkload" -> LoadServiceWorkload(st, fr)

(***************************************************************************)
(* The objects the informers deliver.                                      *)
(***************************************************************************)
OwnerRef(kind, name) == [kind |-> kind, name |-> name]

PodNames == {"web-bcdfg", "db-0"}

\* hostNetwork, PodIP, HostIP and the HostPort of each container port.
PodNetwork(ip) ==
    [hostNetwork |-> FALSE, podIP |-> ip, hostIP |-> "10.0.0.9",
     hostPorts |-> <<>>]

HostNetwork(ip, ports) ==
    [hostNetwork |-> TRUE, podIP |-> ip, hostIP |-> "10.0.0.9",
     hostPorts |-> ports]

\* Owner references and labels.
Workload(owners, labels) == [owners |-> owners, labels |-> labels]

NoOwner == Workload(<<>>, {})

DeploymentWeb ==
    Workload(<<OwnerRef("ReplicaSet", "web-bcdfghjklm")>>,
             {<<"app", "cart">>})

StatefulSetDb == Workload(<<OwnerRef("StatefulSet", "db")>>,
                          {<<"app", "cart">>})

StatefulSetDbRelabelled ==
    Workload(<<OwnerRef("StatefulSet", "db")>>, {<<"app", "db">>})

MakePod(name, namespace, net, wl) ==
    [name |-> name, namespace |-> namespace,
     hostNetwork |-> net.hostNetwork, podIP |-> net.podIP,
     hostIP |-> net.hostIP, hostPorts |-> net.hostPorts,
     owners |-> wl.owners, labels |-> wl.labels]

PodsOver(names, namespaces, nets, wls) ==
    {MakePod(n, ns, net, wl) :
        n \in names, ns \in namespaces, net \in nets, wl \in wls}

\* The pods of Spec: every shape of the pod's network, with and without a
\* derived workload.
PodObjects ==
    PodsOver(PodNames, {"shop"},
             {PodNetwork("10.0.0.1"), PodNetwork(""),
              HostNetwork("10.0.0.9", <<8080>>),
              HostNetwork("", <<8080, 0>>)},
             {NoOwner, StatefulSetDb})

ServiceObjects ==
    [name : {"cart"}, namespace : {"shop"},
     clusterIP : {"10.0.0.1", "None"},
     selector : {{}, {<<"app", "cart">>}}]

\* The pods of SpecMap: pods of the pod network, of two workloads with equal
\* or different labels.
MapPodObjects ==
    PodsOver(PodNames, {"shop"}, {PodNetwork("10.0.0.1")},
             {DeploymentWeb, StatefulSetDb, StatefulSetDbRelabelled})

MapServiceObjects ==
    [name : {"cart"}, namespace : {"shop", "prod"},
     clusterIP : {"10.0.0.2"},
     selector : {{}, {<<"app", "cart">>}}]

\* The pods of SpecPods: two names in two namespaces, two addresses, and
\* workloads with and without labels.
StatefulSetDbUnlabelled == Workload(<<OwnerRef("StatefulSet", "db")>>, {})

NamespacedPodObjects ==
    PodsOver(PodNames, {"shop", "prod"},
             {PodNetwork("10.0.0.1"), PodNetwork("10.0.0.2")},
             {DeploymentWeb, StatefulSetDb, StatefulSetDbUnlabelled})

NamespacedServiceObjects ==
    {s \in MapServiceObjects : s.namespace = "shop" /\ s.selector # {}}

\* The pods and services of SpecShape: every shape of the pod's network
\* under one owner, and every shape of the owner list on one network.
ShapeNets ==
    {PodNetwork("10.0.0.1"), PodNetwork("10.0.0.2"), PodNetwork(""),
     HostNetwork("10.0.0.9", <<8080>>),
     HostNetwork("10.0.0.9", <<8080, 9090>>),
     HostNetwork("", <<9090, 0>>),
     [hostNetwork |-> TRUE, podIP |-> "10.0.0.8", hostIP |-> "10.0.0.8",
      hostPorts |-> <<8080>>]}

ShapeOwners ==
    {<<>>,
     <<OwnerRef("ReplicaSet", "web-bcdfghjklm")>>,
     <<OwnerRef("ReplicaSet", "web")>>,
     <<OwnerRef("ReplicaSet", "web-bcdfghjkla")>>,
     <<OwnerRef("ReplicaSet", "web"), OwnerRef("StatefulSet", "db")>>,
     <<OwnerRef("StatefulSet", "db"), OwnerRef("DaemonSet", "agent")>>,
     <<OwnerRef("DaemonSet", "agent")>>,
     <<OwnerRef("Job", "batch"), OwnerRef("DaemonSet", "agent")>>,
     <<OwnerRef("Job", "batch")>>}

ShapePodObjects ==
    PodsOver(PodNames, {"shop"}, ShapeNets, {StatefulSetDb})
    \cup PodsOver(PodNames, {"shop"}, {PodNetwork("10.0.0.1")},
                  {Workload(owners, {<<"app", "cart">>}) :
                      owners \in ShapeOwners})

ShapeServiceObjects ==
    [name : {"cart"}, namespace : {"shop"},
     clusterIP : {"", "None", "10.0.0.2"},
     selector : {{<<"app", "cart">>}}]

\* The pods and the service of SpecHot share one address, as pod IP, as
\* host IP and as ClusterIP.
HotPodObjects ==
    PodsOver(PodNames, {"shop"},
             {PodNetwork("10.0.0.9"), HostNetwork("10.0.0.9", <<8080>>)},
             {NoOwner, StatefulSetDb})

HotServiceObjects ==
    [name : {"cart"}, namespace : {"shop"}, clusterIP : {"10.0.0.9"},
     selector : {{<<"app", "cart">>}}]

\* The values of aws.remote.service: no address, an address, an address
\* and port, an address and port nothing has, an IPv6 address, a dotted
\* number that is no address, with and without a port.
RemoteServiceValues ==
    {"cart-service", "10.0.0.9", "10.0.0.9:8080", "10.0.0.7:80", "::1",
     "256.0.0.1", "256.0.0.1:80"}

BaseBag == [k \in {"rpc.method"} |-> "GET"]

\* The attributes of a span: without aws.remote.service, with each of its
\* values, and with an aws.remote.namespace set before Process runs.
AttributeBags ==
    {BaseBag} \cup
    {PutStr(BaseBag, AttributeRemoteService, v) : v \in RemoteServiceValues}
    \cup
    {PutStr(PutStr(BaseBag, AttributeRemoteNamespace, "stale"),
            AttributeRemoteService, v) :
        v \in {"cart-service", "10.0.0.9:8080"}}

PodKey(pod) == <<pod.namespace, pod.name>>

ServiceKey(service) == <<service.namespace, service.name>>

(***************************************************************************)
(* The life of the resolver: the package variables once and instance, the  *)
(* safeChannel, the processors that ask for the resolver and stop it, and  *)
(* the goroutines that select on the stop channel.                         *)
(***************************************************************************)
\* The trace and the metric processor share the resolver.
Callers == {"traces", "metrics"}

\* Before the first call of getEksResolver.  get and stop are the positions
\* of each processor in getEksResolver and in Stop; closes counts the
\* executions of close(sc.ch), bodies those of the function passed to
\* once.Do; firstRun tells that the mapper's first run is over.
LifeFresh ==
    [once |-> "fresh", bodies |-> 0, instance |-> "nil", firstRun |-> FALSE,
     get |-> [c \in Callers |-> [pc |-> "idle", got |-> ""]],
     closed |-> FALSE, closes |-> 0, mutex |-> "",
     stop |-> [c \in Callers |-> [pc |-> "idle", err |-> "", calls |-> 0]],
     informers |-> "notStarted", mapper |-> "notStarted",
     debug |-> "notStarted"]

\* The resolver built and handed out, nothing stopped.
LifeRunning ==
    [LifeFresh EXCEPT
        !.once = "done", !.bodies = 1, !.instance = "resolver",
        !.firstRun = TRUE,
        !.get = [c \in Callers |-> [pc |-> "returned", got |-> "resolver"]],
        !.informers = "running", !.mapper = "loop", !.debug = "loop"]

(***************************************************************************)
(* Actions.                                                                *)
(***************************************************************************)
NoRun == [ran |-> FALSE]

\* The indexes NewPodWatcher, NewServiceWatcher and getEksResolver create.
EmptyIndexes ==
    [ipToPod |-> EmptyMap,
     podToWorkloadAndNamespace |-> EmptyMap,
     workloadAndNamespaceToLabels |-> EmptyMap,
     workloadPodCount |-> EmptyMap,
     ipToServiceAndNamespace |-> EmptyMap,
     serviceAndNamespaceToSelectors |-> EmptyMap,
     serviceToWorkload |-> EmptyMap,
     pending |-> {},
     who |-> ""]

\* The state with indexes st, the informers' stores holding the objects of
\* podList and serviceList, and n events and mapper runs to come.
InitData(st, podList, serviceList, n) ==
    /\ ipToPod = st.ipToPod
    /\ podToWorkloadAndNamespace = st.podToWorkloadAndNamespace
    /\ workloadAndNamespaceToLabels = st.workloadAndNamespaceToLabels
    /\ workloadPodCount = st.workloadPodCount
    /\ ipToServiceAndNamespace = st.ipToServiceAndNamespace
    /\ serviceAndNamespaceToSelectors = st.serviceAndNamespaceToSelectors
    /\ serviceToWorkload = st.serviceToWorkload
    /\ pending = st.pending
    /\ pods = [k \in {PodKey(podList[i]) : i \in 1..Len(podList)} |->
                  CHOOSE pod \in {podList[i] : i \in 1..Len(podList)} :
                      PodKey(pod) = k]
    /\ services =
           [k \in {ServiceKey(serviceList[i]) : i \in 1..Len(serviceList)} |->
               CHOOSE service \in
                      {serviceList[i] : i \in 1..Len(serviceList)} :
                   ServiceKey(service) = k]
    /\ budget = n
    /\ lastRun = NoRun
    /\ onlyAdds = TRUE
    /\ attributes = EmptyMap
    /\ proc = Idle

\* The same with the resolver built and running: getEksResolver has returned.
InitWith(st, podList, serviceList, n) ==
    /\ InitData(st, podList, serviceList, n)
    /\ life = LifeRunning

\* The watchers start on empty indexes: every object arrives as an event.
Init == InitWith(EmptyIndexes, <<>>, <<>>, MaxEvents)

InitMap == InitWith(EmptyIndexes, <<>>, <<>>, MaxMapEvents)

\* The Add events of the informers' initial list, in order.
RECURSIVE SyncPods(_, _)
SyncPods(st, podList) ==
    IF podList = <<>> THEN st
    ELSE SyncPods(onAddOrUpdatePod([st EXCEPT !.who = "PodAdd"],
                                   Head(podList), Head(podList), TRUE),
                  Tail(podList))

RECURSIVE SyncServices(_, _)
SyncServices(st, serviceList) ==
    IF serviceList = <<>> THEN st
    ELSE SyncServices(onAddOrUpdateService([st EXCEPT !.who = "ServiceAdd"],
                                           Head(serviceList)),
                      Tail(serviceList))

\* getEksResolver hands out the resolver after the caches have synced and
\* the mapper has run once: Process runs on the indexes that leaves.
Synced(podList, serviceList) ==
    MapServiceToWorkload(
        [SyncServices(SyncPods(EmptyIndexes, podList), serviceList)
            EXCEPT !.who = "Mapper"])

\* The lists of at most n objects with different keys.
RECURSIVE ListsOf(_, _)
ListsOf(objects, n) ==
    IF n = 0 THEN {<<>>}
    ELSE ListsOf(objects, n - 1) \cup
         {Append(l, o) : l \in ListsOf(objects, n - 1), o \in objects}

InitHot ==
    \E podList \in ListsOf(HotPodObjects, MaxHotSync),
       serviceList \in ListsOf(HotServiceObjects, 1) :
        /\ \A i, j \in 1..Len(podList) :
               PodKey(podList[i]) = PodKey(podList[j]) => i = j
        /\ InitWith(Synced(podList, serviceList), podList, serviceList,
                    MaxHotEvents)

\* One informer event or mapper run is spent.
Spend ==
    /\ budget > 0
    /\ budget' = budget - 1

\* AddFunc of the pod informer.
PodAdd(pod) ==
    /\ Spend
    /\ PodKey(pod) \notin DOMAIN pods
    /\ pods' = MapStore(pods, PodKey(pod), pod)
    /\ Install(onAddOrUpdatePod(Cur("PodAdd"), pod, pod, TRUE))
    /\ lastRun' = NoRun
    /\ UNCHANGED <<onlyAdds, hot, life>>
    /\ UNCHANGED services

\* UpdateFunc of the pod informer: the old object is the one in the store.
PodUpdate(pod) ==
    /\ Spend
    /\ PodKey(pod) \in DOMAIN pods
    /\ pods' = MapStore(pods, PodKey(pod), pod)
    /\ Install(onAddOrUpdatePod(Cur("PodUpdate"), pod, pods[PodKey(pod)],
                                FALSE))
    /\ lastRun' = NoRun
    /\ onlyAdds' = FALSE
    /\ UNCHANGED <<hot, life>>
    /\ UNCHANGED services

\* DeleteFunc of the pod informer.
PodDelete(key) ==
    /\ Spend
    /\ key \in DOMAIN pods
    /\ pods' = MapDelete(pods, key)
    /\ Install(onDeletePod(Cur("PodDelete"), pods[key]))
    /\ lastRun' = NoRun
    /\ onlyAdds' = FALSE
    /\ UNCHANGED <<hot, life>>
    /\ UNCHANGED services

ServiceAdd(service) ==
    /\ Spend
    /\ ServiceKey(service) \notin DOMAIN services
    /\ services' = MapStore(services, ServiceKey(service), service)
    /\ Install(onAddOrUpdateService(Cur("ServiceAdd"), service))
    /\ lastRun' = NoRun
    /\ UNCHANGED <<onlyAdds, hot, life>>
    /\ UNCHANGED pods

ServiceUpdate(service) ==
    /\ Spend
    /\ ServiceKey(service) \in DOMAIN services
    /\ services' = MapStore(services, ServiceKey(service), service)
    /\ Install(onAddOrUpdateService(Cur("ServiceUpdate"), service))
    /\ lastRun' = NoRun
    /\ onlyAdds' = FALSE
    /\ UNCHANGED <<hot, life>>
    /\ UNCHANGED pods

ServiceDelete(key) ==
    /\ Spend
    /\ key \in DOMAIN services
    /\ services' = MapDelete(services, key)
    /\ Install(onDeleteService(Cur("ServiceDelete"), services[key]))
    /\ lastRun' = NoRun
    /\ onlyAdds' = FALSE
    /\ UNCHANGED <<hot, life>>
    /\ UNCHANGED pods

\* One run of MapServiceToWorkload (the first one or a periodic one).
\* lastRun keeps what the run saw: the workloads collected per service.
MapperRun ==
    /\ Spend
    /\ Install(MapServiceToWorkload(Cur("Mapper")))
    /\ lastRun' =
           [ran |-> TRUE,
            workloads |->
                [s \in DOMAIN serviceAndNamespaceToSelectors |->
                    MatchingWorkloads(Cur("Mapper"), s)]]
    /\ UNCHANGED <<pods, services, onlyAdds, hot, life>>

\* One minute passes for every goroutine still sleeping.
Tick ==
    /\ \E d \in pending : d.age < deletionDelay
    /\ pending' = {IF d.age < deletionDelay
                   THEN [d EXCEPT !.age = @ + 1] ELSE d : d \in pending}
    /\ lastRun' = NoRun
    /\ UNCHANGED <<ipToPod, podToWorkloadAndNamespace,
                   workloadAndNamespaceToLabels, workloadPodCount,
                   ipToServiceAndNamespace, serviceAndNamespaceToSelectors,
                   serviceToWorkload, pods, services, budget, onlyAdds,
                   hot, life>>

\* A deleter that does not sleep: C1_DeferredVisibility tells it from Fire.
FireEarly(d) ==
    /\ d \in pending
    /\ LET st == Cur("Deleter")
       IN Install([st EXCEPT ![d.m] = MapDelete(@, d.k),
                             !.pending = @ \ {d}])
    /\ lastRun' = NoRun
    /\ UNCHANGED <<pods, services, budget, onlyAdds, hot, life>>

\* A goroutine of DeleteWithDelay wakes up, its sleep over, and deletes.
Fire(d) ==
    /\ d \in pending
    /\ d.age >= deletionDelay
    /\ LET st == Cur("Deleter")
       IN Install([st EXCEPT ![d.m] = MapDelete(@, d.k),
                             !.pending = @ \ {d}])
    /\ lastRun' = NoRun
    /\ UNCHANGED <<pods, services, budget, onlyAdds, hot, life>>

\* A processor calls Process on the attributes of a telemetry item.
ProcessCall(bag) ==
    /\ proc.pc \in {"idle", "done"}
    /\ attributes' = ProcessEnter(bag).attributes
    /\ proc' = ProcessEnter(bag).proc
    /\ UNCHANGED <<indexes, pending, pods, services, budget, lastRun,
                   onlyAdds, life>>

\* The call does its next Load.
ProcessStep ==
    /\ proc.pc \notin {"idle", "done"}
    /\ attributes' = LookupStep(Cur(""), Frame(attributes, proc)).attributes
    /\ proc' = LookupStep(Cur(""), Frame(attributes, proc)).proc
    /\ UNCHANGED <<indexes, pending, pods, services, budget, lastRun,
                   onlyAdds, life>>

(***************************************************************************)
(* getEksResolver, Stop and the goroutines that select on the stop channel.*)
(***************************************************************************)
\* A step that touches nothing but the life of the resolver.
LifeStep(new) ==
    /\ life' = new
    /\ UNCHANGED <<indexes, pending, pods, services, budget, lastRun,
                   onlyAdds, hot>>

\* A processor calls getEksResolver and arrives at once.Do.
GetCall(c) ==
    /\ life.get[c].pc = "idle"
    /\ LifeStep([life EXCEPT !.get[c].pc = "do"])

\* once.Do runs the function for the first caller, up to WaitForCacheSync:
\* the stop channel is made and the informers run.  A caller that finds
\* once running waits in once.Do.
OnceEnter(c) ==
    /\ life.get[c].pc = "do"
    /\ life.once = "fresh"
    /\ LifeStep([life EXCEPT !.once = "running", !.bodies = @ + 1,
                             !.closed = FALSE, !.closes = 0,
                             !.informers = "running",
                             !.get[c].pc = "sync"])

\* The caches have synced: ServiceToWorkloadMapper.Start maps once and
\* starts its loop.
OnceStartMapper(c) ==
    /\ life.get[c].pc = "sync"
    /\ Install(MapServiceToWorkload(Cur("Mapper")))
    /\ lastRun' =
           [ran |-> TRUE,
            workloads |->
                [s \in DOMAIN serviceAndNamespaceToSelectors |->
                    MatchingWorkloads(Cur("Mapper"), s)]]
    /\ life' = [life EXCEPT !.firstRun = TRUE, !.mapper = "loop",
                            !.get[c].pc = "assign"]
    /\ UNCHANGED <<pods, services, budget, onlyAdds, hot>>

\* instance is assigned, debugPrint is started, and once.Do is done.
OnceLeave(c) ==
    /\ life.get[c].pc = "assign"
    /\ LifeStep([life EXCEPT !.instance = "resolver", !.debug = "loop",
                             !.once = "done", !.get[c].pc = "return"])

\* A once.Do that lets its caller through while the function still runs.
OnceSkipWhileRunning(c) ==
    /\ life.get[c].pc = "do"
    /\ life.once \in {"running", "done"}
    /\ LifeStep([life EXCEPT !.get[c].pc = "return"])

\* once.Do returns at once for a caller that finds it done.
OnceSkip(c) ==
    /\ life.get[c].pc = "do"
    /\ life.once = "done"
    /\ LifeStep([life EXCEPT !.get[c].pc = "return"])

\* return instance
GetReturn(c) ==
    /\ life.get[c].pc = "return"
    /\ LifeStep([life EXCEPT !.get[c] = [pc |-> "returned",
                                         got |-> life.instance]])

\* A processor that holds the resolver calls Stop, which calls
\* safeStopCh.Close(); it may call it again once the call has returned.
StopCall(c) ==
    /\ life.get[c].got = "resolver"
    /\ life.stop[c].pc \in {"idle", "returned"}
    /\ life.stop[c].calls < MaxStopCalls
    /\ LifeStep([life EXCEPT !.stop[c] = [pc |-> "lock", err |-> "",
                                          calls |-> @.calls + 1]])

\* A Close that does not take the mutex.
StopLockWithoutMutex(c) ==
    /\ life.stop[c].pc = "lock"
    /\ LifeStep([life EXCEPT !.stop[c].pc = "test"])

\* sc.Lock()
StopLock(c) ==
    /\ life.stop[c].pc = "lock"
    /\ life.mutex = ""
    /\ LifeStep([life EXCEPT !.mutex = c, !.stop[c].pc = "test"])

\* if !sc.closed
StopTest(c) ==
    /\ life.stop[c].pc = "test"
    /\ LifeStep([life EXCEPT !.stop[c].pc =
                                 IF ~life.closed THEN "close" ELSE "unlock"])

\* close(sc.ch); sc.closed = true
StopClose(c) ==
    /\ life.stop[c].pc = "close"
    /\ LifeStep([life EXCEPT !.closes = @ + 1, !.closed = TRUE,
                             !.stop[c].pc = "unlock"])

\* The deferred sc.Unlock(), and Stop returns nil.
StopUnlock(c) ==
    /\ life.stop[c].pc = "unlock"
    /\ LifeStep([life EXCEPT !.mutex = IF @ = c THEN "" ELSE @,
                             !.stop[c].pc = "returned",
                             !.stop[c].err = "nil"])

\* A receive from the stop channel is ready once the channel is closed.
StopSignalled == life.closes >= 1

\* Run(stopCh) of the informers returns: no event is delivered after it.
InformersObserveStop ==
    /\ life.informers = "running"
    /\ StopSignalled
    /\ LifeStep([life EXCEPT !.informers = "returned"])

\* case <-stopCh: return, in the loop of ServiceToWorkloadMapper.Start.
MapperObserveStop ==
    /\ life.mapper = "loop"
    /\ StopSignalled
    /\ LifeStep([life EXCEPT !.mapper = "returned"])

\* case <-e.safeStopCh.ch: return, in debugPrint.  The other case, debug(),
\* only logs.
DebugObserveStop ==
    /\ life.debug = "loop"
    /\ StopSignalled
    /\ LifeStep([life EXCEPT !.debug = "returned"])

\* case <-time.After(5 * time.Minute) of debugPrint: debug() has printed the
\* sync.Maps and hands workloadPodCount to the logger, which iterates it.
DebugEnter ==
    /\ life.debug = "loop"
    /\ LifeStep([life EXCEPT !.debug = "dump"])

\* The logger has encoded the map; debug() goes on and returns to the loop.
DebugLeave ==
    /\ life.debug = "dump"
    /\ LifeStep([life EXCEPT !.debug = "loop"])

\* The watchers, the mapper and the deleter, over given sets of objects.
NextOver(podObjects, serviceObjects) ==
    \/ \E pod \in podObjects : PodAdd(pod)
    \/ \E pod \in podObjects : PodUpdate(pod)
    \/ \E key \in DOMAIN pods : PodDelete(key)
    \/ \E service \in serviceObjects : ServiceAdd(service)
    \/ \E service \in serviceObjects : ServiceUpdate(service)
    \/ \E key \in DOMAIN services : ServiceDelete(key)
    \/ MapperRun
    \/ Tick
    \/ \E d \in pending : Fire(d)

Next == NextOver(PodObjects, ServiceObjects)

Spec == Init /\ [][Next]_vars

NextMap == NextOver(MapPodObjects, MapServiceObjects)

SpecMap == InitMap /\ [][NextMap]_vars

NextHot ==
    \/ NextOver(HotPodObjects, HotServiceObjects)
    \/ \E bag \in AttributeBags : ProcessCall(bag)
    \/ ProcessStep

SpecHot == InitHot /\ [][NextHot]_vars

\* The objects the informers deliver while the resolver is built and stopped.
LifePodObjects ==
    PodsOver({"db-0"}, {"shop"}, {PodNetwork("10.0.0.1")}, {StatefulSetDb})

LifeServiceObjects ==
    {s \in MapServiceObjects : s.namespace = "shop" /\ s.selector # {}}

\* Before the first call of getEksResolver: no index holds anything.
InitLife ==
    /\ InitData(EmptyIndexes, <<>>, <<>>, MaxLifeEvents)
    /\ life = LifeFresh

\* A timer that goes on mapping after the loop has returned.
PeriodicRunOfTicker == MapperRun

\* case <-time.After(time.Minute + 30*time.Second) of the mapper's loop.
\* select may take it also when the stop channel is closed.
PeriodicRun ==
    /\ life.mapper = "loop"
    /\ MapperRun

\* The resolver from before its first request to after its stop.  The
\* informers deliver events while they run; the goroutines of the deleter
\* do not look at the stop channel.
NextLife ==
    \/ \E c \in Callers : GetCall(c)
    \/ \E c \in Callers : OnceEnter(c)
    \/ \E c \in Callers : OnceStartMapper(c)
    \/ \E c \in Callers : OnceLeave(c)
    \/ \E c \in Callers : OnceSkip(c)
    \/ \E c \in Callers : GetReturn(c)
    \/ \E c \in Callers : StopCall(c)
    \/ \E c \in Callers : StopLock(c)
    \/ \E c \in Callers : StopTest(c)
    \/ \E c \in Callers : StopClose(c)
    \/ \E c \in Callers : StopUnlock(c)
    \/ InformersObserveStop
    \/ MapperObserveStop
    \/ DebugObserveStop
    \/ PeriodicRun
    \/ \E pod \in LifePodObjects :
           life.informers = "running" /\ PodAdd(pod)
    \/ \E key \in DOMAIN pods :
           life.informers = "running" /\ PodDelete(key)
    \/ \E service \in LifeServiceObjects :
           life.informers = "running" /\ ServiceAdd(service)
    \/ Tick
    \/ \E d \in pending : Fire(d)

\* The scheduler is fair to the goroutines that wait on the stop channel, to
\* the processors inside Stop, and to the sleeping deleters.
FairLife ==
    /\ WF_vars(MapperObserveStop)
    /\ WF_vars(DebugObserveStop)
    /\ WF_vars(InformersObserveStop)
    /\ \A c \in Callers :
           WF_vars(StopLock(c) \/ StopTest(c) \/ StopClose(c) \/ StopUnlock(c))
    /\ WF_vars(Tick)
    /\ WF_vars(\E d \in pending : Fire(d))

SpecLife == InitLife /\ [][NextLife]_vars /\ FairLife

\* The running resolver with debugPrint's timer firing.
InitDump == InitWith(EmptyIndexes, <<>>, <<>>, MaxDumpEvents)

NextDump ==
    \/ NextOver(MapPodObjects, MapServiceObjects)
    \/ DebugEnter
    \/ DebugLeave

SpecDump == InitDump /\ [][NextDump]_vars

InitPods == InitWith(EmptyIndexes, <<>>, <<>>, MaxPodEvents)

NextPods == NextOver(NamespacedPodObjects, NamespacedServiceObjects)

SpecPods == InitPods /\ [][NextPods]_vars

InitShape == InitWith(EmptyIndexes, <<>>, <<>>, MaxShapeEvents)

NextShape == NextOver(ShapePodObjects, ShapeServiceObjects)

SpecShape == InitShape /\ [][NextShape]_vars

(***************************************************************************)
(* Properties.                                                             *)
(***************************************************************************)
\* The index named m, now.
Index(m) == Cur("")[m]

\* The keys handlePodAdd stores in ipToPod for a pod.
Endpoints(pod) ==
    IF pod.hostNetwork THEN HostIPPorts(pod)
    ELSE IF pod.podIP # "" THEN {pod.podIP}
    ELSE {}

NamespaceOf(key) == extractResourceAndNamespace(key)[2]

ResolveByIP(ip) == GetWorkloadAndNamespaceByIP(Cur(""), ip)

\* A deletion a pod or service Delete event scheduled for a key that was
\* stored then, its delay not yet over.
C1_Sleeping(d) ==
    /\ d.by \in {"PodDelete", "ServiceDelete"}
    /\ d.had
    /\ d.age < deletionDelay

C1_Readable ==
    \A d \in pending : C1_Sleeping(d) /\ d.first => Has(Index(d.m), d.k)

C1_Resolves ==
    \A d, e \in pending :
        /\ C1_Sleeping(d) /\ d.first /\ d.m = "ipToPod"
        /\ C1_Sleeping(e) /\ e.first /\ e.m = "podToWorkloadAndNamespace"
        /\ Has(ipToPod, d.k)
        /\ e.k = ipToPod[d.k]
        => ResolveByIP(d.k)[3]

C1_StaysReadable ==
    \A d \in pending : C1_Sleeping(d) /\ d.first => Has(Index(d.m)', d.k)

LivePodsOf(w) == {k \in DOMAIN pods : getWorkloadAndNamespace(pods[k]) = w}

DerivedWorkloads ==
    {getWorkloadAndNamespace(pods[k]) : k \in DOMAIN pods} \ {""}

\* C3: workloadPodCount[w] is the number of live pods whose derived
\* workload is w.
C3_ReferenceCountSound ==
    \A w \in DOMAIN workloadPodCount \cup DerivedWorkloads :
        Count(workloadPodCount, w) = Cardinality(LivePodsOf(w))

\* Selectors of s contained in the labels of w, in one non-empty namespace.
C4_Contained(s, w) ==
    /\ Has(serviceAndNamespaceToSelectors, s)
    /\ Has(workloadAndNamespaceToLabels, w)
    /\ serviceAndNamespaceToSelectors[s] \subseteq
           workloadAndNamespaceToLabels[w]
    /\ NamespaceOf(s) = NamespaceOf(w)
    /\ NamespaceOf(s) # ""

\* C4 (as amended): right after a mapper run, every service for which the
\* run collected exactly one workload is mapped to a workload whose labels
\* contain its selectors, in the same non-empty namespace.
C4_SubsetMapping ==
    lastRun.ran =>
        \A s \in DOMAIN lastRun.workloads :
            Cardinality(lastRun.workloads[s]) = 1 =>
                /\ Has(serviceToWorkload, s)
                /\ C4_Contained(s, serviceToWorkload[s])

\* C4 (as claimed): right after a mapper run, the same of every entry of
\* serviceToWorkload.
C4_SubsetMappingOfEveryEntry ==
    lastRun.ran =>
        \A s \in DOMAIN serviceToWorkload :
            C4_Contained(s, serviceToWorkload[s])

\* A run has just mapped a service to the one workload it collected.
C4_Witness ==
    /\ lastRun.ran
    /\ \E s \in DOMAIN lastRun.workloads :
           /\ Cardinality(lastRun.workloads[s]) = 1
           /\ Has(serviceToWorkload, s)
           /\ serviceToWorkload[s] \in lastRun.workloads[s]

\* C5: right after a mapper run that collected two or more workloads for a
\* service, the service is not in serviceToWorkload, whatever earlier runs
\* stored.
C5_AmbiguousAbsent ==
    lastRun.ran =>
        \A s \in DOMAIN lastRun.workloads :
            Cardinality(lastRun.workloads[s]) >= 2
                => ~Has(serviceToWorkload, s)

\* The pod and the service of the end-to-end scenario: the pod on the pod
\* network with an IP, labels and a derived workload; the service in its
\* namespace with a routable ClusterIP and a non-empty selector within the
\* pod's labels; the run that has just completed collected only the pod's
\* workload for the service; and no other live pod has the pod's name or an
\* endpoint equal to one of the two addresses, no other live service the
\* ClusterIP.
C6_Scenario(pk, sk) ==
    LET pod == pods[pk]
        service == services[sk]
        s == getServiceAndNamespace(service)
    IN /\ onlyAdds
       /\ lastRun.ran
       /\ ~pod.hostNetwork
       /\ pod.podIP # ""
       /\ pod.labels # {}
       /\ getWorkloadAndNamespace(pod) # ""
       /\ service.namespace = pod.namespace
       /\ service.clusterIP \notin {"", "None"}
       /\ service.selector # {}
       /\ service.selector \subseteq pod.labels
       /\ Has(lastRun.workloads, s)
       /\ lastRun.workloads[s] = {getWorkloadAndNamespace(pod)}
       /\ \A qk \in DOMAIN pods \ {pk} :
              /\ pods[qk].name # pod.name
              /\ Endpoints(pods[qk]) \cap {pod.podIP, service.clusterIP} = {}
       /\ \A tk \in DOMAIN services \ {sk} :
              services[tk].clusterIP # service.clusterIP

\* The answer (w, n) for a pod: found, in the pod's namespace, and w@n the
\* pod's derived workload.
C6_Answer(r, pod) ==
    /\ r[3]
    /\ r[2] = pod.namespace
    /\ attachNamespace(r[1], r[2]) = getWorkloadAndNamespace(pod)

\* C6: after the Add of such a pod and of such a service (and of nothing
\* that shares their keys) and a mapper run in which the pod's workload is
\* the only match, ResolveByIP on the PodIP and on the ClusterIP both give
\* the pod's workload and namespace.
C6_EndToEnd ==
    \A pk \in DOMAIN pods, sk \in DOMAIN services :
        C6_Scenario(pk, sk) =>
            /\ C6_Answer(ResolveByIP(pods[pk].podIP), pods[pk])
            /\ C6_Answer(ResolveByIP(services[sk].clusterIP), pods[pk])

C6_Witness ==
    \E pk \in DOMAIN pods, sk \in DOMAIN services :
        /\ C6_Scenario(pk, sk)
        /\ pods[pk].podIP # services[sk].clusterIP

\* C7: an endpoint key of ipToPod that belongs to no live pod (its pod was
\* deleted, and nothing stored the key again) has its deferred deletion
\* pending: it is removed once the delay is over.
C7_EndpointsOfDeletedPodRemoved ==
    \A e \in DOMAIN ipToPod :
        (~\E k \in DOMAIN pods : e \in Endpoints(pods[k]))
            => \E d \in pending : d.m = "ipToPod" /\ d.k = e

\* The call of GetWorkloadAndNamespaceByIP that returned last.
LastCall == proc.calls[Len(proc.calls)]

\* What ResolveByIP gives for an endpoint whose pod chain does not hit.
C2_ServiceChain(e) ==
    IF /\ Has(ipToServiceAndNamespace, e)
       /\ Has(serviceToWorkload, ipToServiceAndNamespace[e])
    THEN Found(serviceToWorkload[ipToServiceAndNamespace[e]])
    ELSE NotFound

C2_PartialUpdate ==
    \A e \in DOMAIN ipToPod :
        ~Has(podToWorkloadAndNamespace, ipToPod[e])
            => ResolveByIP(e) = C2_ServiceChain(e)

\* A step of a running call: the second Load of a chain is reached only by
\* a hit of its first Load, on the value loaded; the call returns a
\* workload only from a hit of the second Load of a chain, and it is the
\* workload loaded.
C2_BothLookupsHit ==
    /\ proc'.pc = "loadWorkload" /\ proc.pc # "loadWorkload"
           => /\ proc.pc = "loadPod"
              /\ Has(ipToPod, proc.arg)
              /\ proc'.pod = ipToPod[proc.arg]
    /\ proc'.pc = "loadServiceWorkload" /\ proc.pc # "loadServiceWorkload"
           => /\ proc.pc = "loadService"
              /\ Has(ipToServiceAndNamespace, proc.arg)
              /\ proc'.svc = ipToServiceAndNamespace[proc.arg]
    /\ Len(proc'.calls) = Len(proc.calls) + 1
       /\ proc'.calls[Len(proc'.calls)].result[3]
           => \/ /\ proc.pc = "loadWorkload"
                 /\ Has(podToWorkloadAndNamespace, proc.pod)
                 /\ proc'.calls[Len(proc'.calls)].result =
                        Found(podToWorkloadAndNamespace[proc.pod])
              \/ /\ proc.pc = "loadServiceWorkload"
                 /\ Has(serviceToWorkload, proc.svc)
                 /\ proc'.calls[Len(proc'.calls)].result =
                        Found(serviceToWorkload[proc.svc])

\* C2 (as amended): when ipToPod contains the endpoint but podToWorkload
\* does not contain the pod it names, ResolveByIP(endpoint) returns NotFound
\* unless ipToService contains the endpoint and serviceToWorkload the
\* service it names, and then the workload of that service; and in every
\* interleaving with the watchers, the mapper and the deleter a call returns
\* a workload only when both Loads of one chain hit.
C2_NeverAWrongAnswer ==
    /\ []C2_PartialUpdate
    /\ [][C2_BothLookupsHit]_vars

\* C2 (as claimed): when ipToPod contains the endpoint but podToWorkload
\* does not contain the pod it names, ResolveByIP(endpoint) returns
\* NotFound.
C2_PartialUpdateIsNotFound ==
    \A e \in DOMAIN ipToPod :
        ~Has(podToWorkloadAndNamespace, ipToPod[e])
            => ResolveByIP(e) = NotFound

\* A call has loaded a pod from ipToPod, found no workload for it and no
\* service at the address, and has returned NotFound; the indexes still are
\* that way.
C2_Witness ==
    /\ proc.pc = "done"
    /\ Len(proc.calls) >= 1
    /\ proc.pod # ""
    /\ LastCall.result = NotFound
    /\ Has(ipToPod, LastCall.arg)
    /\ ~Has(podToWorkloadAndNamespace, ipToPod[LastCall.arg])
    /\ ResolveByIP(LastCall.arg) = NotFound

\* A value of aws.remote.service that Process looks up.
IPShaped(valueStr) == extractIPPort(valueStr)[3] \/ isIP(valueStr)

\* Process has returned from a call on a bag with aws.remote.service.
Returned == proc.pc = "done" /\ Has(proc.entry, AttributeRemoteService)

\* The bag with the value of one key replaced, the rest as it is.
C8_Overwritten(bag, key, value) ==
    [k \in DOMAIN bag \cup {key} |-> IF k = key THEN value ELSE bag[k]]

\* C8: when aws.remote.service holds an IP or IP:port value and every call
\* of GetWorkloadAndNamespaceByIP for it has missed, Process has overwritten
\* aws.remote.service with "UnknownRemoteService", has left every other
\* attribute, aws.remote.namespace among them, as it was (absent if it was
\* absent) and returns nil.
C8_EnrichOnMiss ==
    /\ Returned
    /\ IPShaped(proc.entry[AttributeRemoteService])
    /\ \A i \in 1..Len(proc.calls) : ~proc.calls[i].result[3]
    => /\ attributes = C8_Overwritten(proc.entry, AttributeRemoteService,
                                      "UnknownRemoteService")
       /\ Has(attributes, AttributeRemoteNamespace)
              = Has(proc.entry, AttributeRemoteNamespace)
       /\ proc.err = "nil"

\* Both calls for an IP:port value have missed while the indexes were not
\* empty; the namespace set before the call is still there.
C8_Witness ==
    /\ Returned
    /\ extractIPPort(proc.entry[AttributeRemoteService])[3]
    /\ Len(proc.calls) = 2
    /\ \A i \in 1..2 : ~proc.calls[i].result[3]
    /\ attributes[AttributeRemoteService] = "UnknownRemoteService"
    /\ Has(attributes, AttributeRemoteNamespace)
    /\ attributes[AttributeRemoteNamespace] = "stale"
    /\ ipToPod # EmptyMap

\* The part of an IP:port value before its colon.
C9_AddressOf(valueStr) == Split(valueStr, ":")[1]

\* The bag after a hit r: the service is the workload, the namespace its
\* namespace, the rest as it was.
C9_Rewritten(bag, r) ==
    [k \in DOMAIN bag \cup {AttributeRemoteService, AttributeRemoteNamespace}
        |-> IF k = AttributeRemoteService THEN r[1]
            ELSE IF k = AttributeRemoteNamespace THEN r[2]
            ELSE bag[k]]

\* C9: for an IP:port value Process first calls
\* GetWorkloadAndNamespaceByIP on the whole value and uses its result if it
\* hits; only if it misses it calls it on the address, and uses that result
\* if it hits.  A bare IP is looked up once, as it is.  After a hit
\* aws.remote.service is the workload and aws.remote.namespace its
\* namespace.
C9_LookupOrder ==
    Returned =>
        LET valueStr == proc.entry[AttributeRemoteService]
            calls == proc.calls
        IN /\ extractIPPort(valueStr)[3] =>
                  /\ Len(calls) >= 1
                  /\ calls[1].arg = valueStr
                  /\ IF calls[1].result[3]
                     THEN /\ Len(calls) = 1
                          /\ attributes =
                                 C9_Rewritten(proc.entry, calls[1].result)
                     ELSE /\ Len(calls) = 2
                          /\ calls[2].arg = C9_AddressOf(valueStr)
                          /\ calls[2].result[3] =>
                                 attributes =
                                     C9_Rewritten(proc.entry, calls[2].result)
           /\ ~extractIPPort(valueStr)[3] /\ isIP(valueStr) =>
                  /\ Len(calls) = 1
                  /\ calls[1].arg = valueStr
                  /\ calls[1].result[3] =>
                         attributes = C9_Rewritten(proc.entry, calls[1].result)

\* The call on the whole IP:port value missed and the call on the address
\* hit: the attributes are rewritten from the second.
C9_Witness ==
    /\ Returned
    /\ extractIPPort(proc.entry[AttributeRemoteService])[3]
    /\ Len(proc.calls) = 2
    /\ ~proc.calls[1].result[3]
    /\ proc.calls[2].result[3]
    /\ proc.calls[2].result[1] # ""
    /\ attributes[AttributeRemoteService] = proc.calls[2].result[1]
    /\ attributes[AttributeRemoteNamespace] = proc.calls[2].result[2]

C10_BagUnchanged ==
    /\ proc.pc = "done"
    /\ \/ ~Has(proc.entry, AttributeRemoteService)
       \/ ~IPShaped(proc.entry[AttributeRemoteService])
    => /\ attributes = proc.entry
       /\ proc.calls = <<>>

C10_OnlyReads ==
    proc' # proc \/ attributes' # attributes => UNCHANGED indexes

\* C10: when aws.remote.service is absent, or is neither IP:port-shaped nor
\* an IP, Process returns with the bag as it was passed and has called
\* GetWorkloadAndNamespaceByIP not once; and no step of Process or of
\* GetWorkloadAndNamespaceByIP changes one of the seven indexes.
C10_EnrichFrame ==
    /\ []C10_BagUnchanged
    /\ [][C10_OnlyReads]_vars

\* Process has returned on a value that is no address, with the indexes
\* populated.
C10_Witness ==
    /\ Returned
    /\ ~IPShaped(proc.entry[AttributeRemoteService])
    /\ attributes = proc.entry
    /\ ipToPod # EmptyMap
    /\ serviceToWorkload # EmptyMap

(***************************************************************************)
(* Stop and the stop channel.                                              *)
(***************************************************************************)
C11_ClosedOnce ==
    /\ life.closes <= 1
    /\ life.closed <=> life.closes = 1

C11_StopReturnsNil ==
    \A c \in Callers :
        /\ life.stop[c].pc = "returned" => life.stop[c].err = "nil"
        /\ life.stop[c].err \in {"", "nil"}

C11_FlagSticks == life.closed => life'.closed

\* C11: for any number of calls of Stop, one after the other or at the same
\* time, close(sc.ch) is executed at most once and never on a closed
\* channel, closed is true exactly when it has been executed and never goes
\* back to false, and every call that returns returns nil.
C11_IdempotentStop ==
    /\ [](C11_ClosedOnce /\ C11_StopReturnsNil)
    /\ [][C11_FlagSticks]_vars

\* One processor is in its second call of Stop, waiting for the mutex the
\* other one holds, and the channel has been closed.
C11_Witness ==
    \E c1, c2 \in Callers :
        /\ c1 # c2
        /\ life.stop[c1].calls = 2
        /\ life.stop[c1].pc = "lock"
        /\ life.stop[c2].pc = "unlock"
        /\ life.mutex = c2
        /\ life.closes = 1

(***************************************************************************)
(* The loops after the stop.                                               *)
(***************************************************************************)
C12_MapperReturns == StopSignalled ~> life.mapper = "returned"

C12_DebugReturns == StopSignalled ~> life.debug = "returned"

\* A periodic run is a step of MapperRun: it spends and leaves its findings.
C12_PeriodicRunStep == budget' = budget - 1 /\ lastRun'.ran

C12_NoRunOnceObserved ==
    life.mapper = "returned"
        => life'.mapper = "returned" /\ ~C12_PeriodicRunStep

\* C12: once the stop channel is closed, the loop of the mapper and the
\* loop of debugPrint each return in the end, under a fair scheduler; and
\* from the step in which the mapper's loop takes the stop case on, no
\* periodic run of MapServiceToWorkload is done.
C12_LoopsReturn ==
    /\ C12_MapperReturns
    /\ C12_DebugReturns
    /\ [][C12_NoRunOnceObserved]_vars

\* Both loops have returned although the informers had events left to
\* deliver and the mapper runs left to do.
C12_Witness ==
    /\ StopSignalled
    /\ life.mapper = "returned"
    /\ life.debug = "returned"
    /\ budget > 0
    /\ pods # EmptyMap

(***************************************************************************)
(* getEksResolver and once.                                                *)
(***************************************************************************)
C13_BodyOnce == life.bodies <= 1

C13_SameInstance ==
    \A c \in Callers :
        life.get[c].pc = "returned" => life.get[c].got = "resolver"

C13_Initialized ==
    \A c \in Callers :
        life.get[c].pc = "returned"
            => /\ life.once = "done"
               /\ life.firstRun
               /\ life.instance = "resolver"

\* C13: the function passed to once.Do is executed at most once however
\* many processors call getEksResolver and however their calls interleave;
\* every call returns the one instance; and no call returns before the
\* function has finished, the first run of the mapper included.
C13_SingleShotInit == C13_BodyOnce /\ C13_SameInstance /\ C13_Initialized

\* Both processors hold the resolver, and the first run of the mapper found
\* a service to map.
C13_Witness ==
    /\ \A c \in Callers : life.get[c].pc = "returned"
    /\ life.bodies = 1
    /\ life.closes = 0
    /\ budget = MaxLifeEvents - 2
    /\ serviceToWorkload # EmptyMap

(***************************************************************************)
(* No deferred deletion is cancelled.                                      *)
(***************************************************************************)
\* A sleeping goroutine goes on sleeping, or sleeps a minute more, or has
\* slept deletionDelay, deletes its key and is gone.
C17_LeavesOnlyByFiring ==
    \A d \in pending :
        \/ d \in pending'
        \/ /\ d.age < deletionDelay
           /\ [d EXCEPT !.age = @ + 1] \in pending'
        \/ /\ d.age >= deletionDelay
           /\ pending' = pending \ {d}
           /\ ~Has(Index(d.m)', d.k)

\* The Add of a pod stores its endpoints whatever is pending on them.
C17_StoreTakesEffect ==
    \A key \in DOMAIN pods' \ DOMAIN pods :
        \A e \in Endpoints(pods'[key]) :
            /\ Has(ipToPod', e)
            /\ ipToPod'[e] = pods'[key].name

C17_EveryDeletionFires == pending # {} ~> pending = {}

\* C17: a key that is stored again while a deletion of it sleeps is
\* overwritten by the store, and the sleeping deletion is not cancelled: it
\* fires when deletionDelay has passed and deletes the key with the value
\* stored since.  Every scheduled deletion deletes its key once, whether or
\* not the stop channel has been closed.
C17_NoCancellation ==
    /\ [][C17_LeavesOnlyByFiring /\ C17_StoreTakesEffect]_vars
    /\ C17_EveryDeletionFires

\* After the stop: a pod added again after its deletion is in the store of
\* the informer, and the deletions scheduled for the earlier one have fired
\* and removed its address.
C17_Witness ==
    /\ StopSignalled
    /\ life.informers = "returned"
    /\ life.mapper = "returned"
    /\ pending = {}
    /\ \E key \in DOMAIN pods :
           /\ Endpoints(pods[key]) # {}
           /\ \A e \in Endpoints(pods[key]) : ~Has(ipToPod, e)

(***************************************************************************)
(* Services without a cluster address.                                     *)
(***************************************************************************)
\* C15: whatever service events have been delivered, ipToServiceAndNamespace
\* has neither the key "" nor the key "None", and no deletion of such a key
\* from it is pending.
C15_HeadlessExcluded ==
    /\ ~Has(ipToServiceAndNamespace, "")
    /\ ~Has(ipToServiceAndNamespace, "None")
    /\ \A d \in pending :
           d.m = "ipToServiceAndNamespace" => d.k \notin {"", "None"}

\* A service without a cluster address has just been deleted: the deletion
\* of its selectors sleeps, and none of an address was scheduled with it.
C15_Witness ==
    /\ \E d \in pending :
           /\ d.m = "serviceAndNamespaceToSelectors"
           /\ d.by = "ServiceDelete"
           /\ d.age = 0
    /\ ~\E d \in pending : d.m = "ipToServiceAndNamespace"
    /\ ipToServiceAndNamespace = EmptyMap
    /\ budget = MaxShapeEvents - 2

(***************************************************************************)
(* The endpoints of a pod on the host network.                             *)
(***************************************************************************)
\* HostIP:HostPort for the container ports that declare a HostPort.
C14_Declared(pod) ==
    {pod.hostIP \o ":" \o Itoa(pod.hostPorts[i]) :
        i \in {j \in 1..Len(pod.hostPorts) : pod.hostPorts[j] # 0}}

\* The keys of ipToPod a step stores a new value under.
C14_Written ==
    {k \in DOMAIN ipToPod' : ~Has(ipToPod, k) \/ ipToPod[k] # ipToPod'[k]}

\* The pods a step adds to the informer's store or replaces in it.
C14_Delivered ==
    {key \in DOMAIN pods' : ~Has(pods, key) \/ pods[key] # pods'[key]}

C14_OnlyDeclaredKeys ==
    \A key \in C14_Delivered :
        LET pod == pods'[key]
            fresh == IF Has(pods, key)
                     THEN C14_Declared(pod) \ Endpoints(pods[key])
                     ELSE C14_Declared(pod)
        IN pod.hostNetwork
           => /\ C14_Written \subseteq C14_Declared(pod)
              /\ pod.hostIP \notin C14_Written
              /\ pod.podIP \notin C14_Written
              /\ \A e \in fresh : Has(ipToPod', e) /\ ipToPod'[e] = pod.name
              /\ getWorkloadAndNamespace(pod) # ""
                 => \A e \in fresh :
                        /\ ResolveByIP(e)'[3]
                        /\ attachNamespace(ResolveByIP(e)'[1],
                                           ResolveByIP(e)'[2])
                               = getWorkloadAndNamespace(pod)

C14_BareHostIPUnresolved ==
    \A key \in DOMAIN pods :
        pods[key].hostNetwork
            => /\ ~Has(ipToPod, pods[key].hostIP)
               /\ ~ResolveByIP(pods[key].hostIP)[3]

\* C14: the Add and the Update of a pod with HostNetwork store in ipToPod
\* only keys HostIP:HostPort of container ports with a HostPort other than
\* 0, one for each of them that the old pod did not have, and not the bare
\* HostIP or PodIP; GetWorkloadAndNamespaceByIP on such a key then gives the
\* pod's workload when it has one, and on the bare HostIP gives nothing.
C14_HostNetworkEndpoints ==
    /\ [][C14_OnlyDeclaredKeys]_vars
    /\ []C14_BareHostIPUnresolved

\* A pod on the host network with two container ports, one without a
\* HostPort, has been added: the address with the port resolves, the bare
\* address does not.
C14_Witness ==
    \E key \in DOMAIN pods :
        /\ pods[key].hostNetwork
        /\ pods[key].hostPorts = <<9090, 0>>
        /\ getWorkloadAndNamespace(pods[key]) # ""
        /\ ResolveByIP(pods[key].hostIP \o ":9090")[3]
        /\ ~ResolveByIP(pods[key].hostIP)[3]
        /\ onlyAdds

(***************************************************************************)
(* The workload of a pod.                                                  *)
(***************************************************************************)
\* The lengths of the prefixes of name that a "-" and n generated characters
\* follow to the end of name: none or one.
C16_PrefixLengths(name, n) ==
    {i \in 1..Len(name) :
        /\ i + 1 + n = Len(name)
        /\ SubSeq(name, i + 1, i + 1) = "-"
        /\ \A j \in (i + 2)..Len(name) :
               SubSeq(name, j, j) \in kubeAllowedStringAlphaNums}

C16_Prefix(name, n) ==
    SubSeq(name, 1, CHOOSE i \in C16_PrefixLengths(name, n) : TRUE)

\* The name an owner reference yields, <<>> for none.
C16_NameOf(ownerRef, pod) ==
    CASE ownerRef.kind = "ReplicaSet" ->
             IF C16_PrefixLengths(ownerRef.name, 10) # {}
             THEN <<C16_Prefix(ownerRef.name, 10)>>
             ELSE IF C16_PrefixLengths(pod.name, 5) # {}
             THEN <<C16_Prefix(pod.name, 5)>>
             ELSE <<>>
      [] ownerRef.kind \in {"StatefulSet", "DaemonSet"} -> <<ownerRef.name>>
      [] OTHER -> <<>>

C16_Expected(pod) ==
    LET yielding == {i \in 1..Len(pod.owners) :
                        C16_NameOf(pod.owners[i], pod) # <<>>}
    IN IF yielding = {} THEN ""
       ELSE LET first == CHOOSE i \in yielding : \A j \in yielding : i <= j
            IN C16_NameOf(pod.owners[first], pod)[1] \o "@" \o pod.namespace

\* C16: the workload derived for a pod is the name yielded by the first
\* owner reference, in the order of the list, that yields one, with the
\* pod's namespace: a ReplicaSet yields what precedes the "-" and ten
\* generated characters its name ends in, else what precedes the "-" and
\* five generated characters the pod's name ends in, else nothing; a
\* StatefulSet or DaemonSet yields its name; any other kind nothing.  It is
\* what the Add of the pod stores for it.
C16_WorkloadDerivation ==
    /\ \A pod \in ShapePodObjects :
           getWorkloadAndNamespace(pod) = C16_Expected(pod)
    /\ onlyAdds
       => \A key \in DOMAIN pods :
              IF C16_Expected(pods[key]) = ""
              THEN ~Has(podToWorkloadAndNamespace, pods[key].name)
              ELSE /\ Has(podToWorkloadAndNamespace, pods[key].name)
                   /\ podToWorkloadAndNamespace[pods[key].name]
                          = C16_Expected(pods[key])

\* Two pods have been added: one whose ReplicaSet owner yields nothing, so
\* that its second owner decides, and one whose ReplicaSet is no
\* Deployment's, so that its own name decides.
C16_Witness ==
    /\ onlyAdds
    /\ \E key \in DOMAIN pods :
           /\ pods[key].name = "db-0"
           /\ pods[key].owners = <<OwnerRef("ReplicaSet", "web"),
                                   OwnerRef("StatefulSet", "db")>>
           /\ podToWorkloadAndNamespace["db-0"] = "db@shop"
    /\ \E key \in DOMAIN pods :
           /\ pods[key].name = "web-bcdfg"
           /\ pods[key].owners = <<OwnerRef("ReplicaSet", "web-bcdfghjkla")>>
           /\ podToWorkloadAndNamespace["web-bcdfg"] = "web@shop"

(***************************************************************************)
(* The Update of a pod and its endpoints.                                  *)
(***************************************************************************)
\* The endpoints of a pod, from its fields.
C18_Endpoints(pod) ==
    IF pod.hostNetwork THEN C14_Declared(pod)
    ELSE IF pod.podIP # "" THEN {pod.podIP}
    ELSE {}

\* The deletions from ipToPod that a step starts.
C18_Scheduled == {d \in pending' \ pending : d.m = "ipToPod"}

\* What a step may do to ipToPod and to the deletions from it, when it is to
\* schedule the keys of gone and to store the keys of come for pod name.
C18_Effect(gone, come, name) ==
    /\ \A d \in C18_Scheduled : d.k \in gone /\ d.age = 0
    /\ \A k \in gone :
           \E d \in pending' : /\ d.m = "ipToPod" /\ d.k = k
                               /\ d.age = 0 /\ d.by = "PodUpdate"
    /\ DOMAIN ipToPod' = DOMAIN ipToPod \cup come
    /\ \A k \in DOMAIN ipToPod' :
           ipToPod'[k] = IF k \in come THEN name ELSE ipToPod[k]

\* An Update leaves the keys of the informer's store as they are and
\* replaces one object, if the new one differs.
C18_Diff ==
    /\ budget' = budget - 1
    /\ DOMAIN pods' = DOMAIN pods
    /\ services' = services
    /\ ~lastRun'.ran
    => \A key \in DOMAIN pods :
           LET old == C18_Endpoints(pods[key])
               new == C18_Endpoints(pods'[key])
           IN pods'[key] # pods[key] \/ pods' = pods
              => C18_Effect(old \ new, new \ old, pods'[key].name)

\* C18: an Update(old, new) of a pod, whichever of the two use the host
\* network, schedules the deletion from ipToPod of exactly the endpoints of
\* old that are not endpoints of new, stores exactly the endpoints of new
\* that are not endpoints of old, with new.Name, and neither writes nor
\* schedules any other key of ipToPod.
C18_UpdateEndpointDiff == [][C18_Diff]_vars

\* A pod of the pod network has moved to the host network and back to the
\* pod network with another address: the three endpoints are stored, and the
\* deletions of the two old ones sleep.
C18_Witness ==
    \E key \in DOMAIN pods :
        /\ ~pods[key].hostNetwork
        /\ pods[key].podIP = "10.0.0.2"
        /\ \A k \in {"10.0.0.1", "10.0.0.9:8080", "10.0.0.2"} :
               Has(ipToPod, k) /\ ipToPod[k] = pods[key].name
        /\ \A k \in {"10.0.0.1", "10.0.0.9:8080"} :
               \E d \in pending : /\ d.m = "ipToPod" /\ d.k = k
                                  /\ d.by = "PodUpdate"
        /\ ~\E d \in pending : d.m = "ipToPod" /\ d.k = "10.0.0.2"

(***************************************************************************)
(* The mapper once the events have ceased.                                 *)
(***************************************************************************)
\* The services and the workloads that SpecMap can store.
C19_Services == {getServiceAndNamespace(service) : service \in MapServiceObjects}

C19_Workloads == {getWorkloadAndNamespace(pod) : pod \in MapPodObjects}

\* w is the one stored workload whose labels contain the selectors of s.
C19_Unique(s, w) ==
    /\ C4_Contained(s, w)
    /\ \A v \in DOMAIN workloadAndNamespaceToLabels :
           C4_Contained(s, v) => v = w

\* s is mapped to it, and no deletion of the mapping, of the selectors of s
\* or of the labels of w sleeps.
C19_Settled(s, w) ==
    /\ C19_Unique(s, w)
    /\ Has(serviceToWorkload, s)
    /\ serviceToWorkload[s] = w
    /\ ~\E d \in pending :
           \/ d.m = "serviceToWorkload" /\ d.k = s
           \/ d.m = "serviceAndNamespaceToSelectors" /\ d.k = s
           \/ d.m = "workloadAndNamespaceToLabels" /\ d.k = w

C19_RunStep == budget' = budget - 1 /\ lastRun'.ran

C19_NoEventStep == budget' = budget \/ lastRun'.ran

\* A run that starts when every deferred deletion has fired settles s.
C19_RunSettles ==
    C19_RunStep /\ pending = {}
        => \A s \in C19_Services : \A w \in C19_Workloads :
               C19_Unique(s, w) => C19_Settled(s, w)'

\* No later run, minute or deletion unsettles it.
C19_StaysSettled ==
    C19_NoEventStep
        => \A s \in C19_Services : \A w \in C19_Workloads :
               C19_Settled(s, w) => C19_Settled(s, w)'

\* C19: when no event arrives any more, the deferred deletions have fired
\* and the selectors stored for s are contained in the labels stored for
\* exactly one workload w of its namespace, a mapper run leaves
\* serviceToWorkload[s] = w, and it stays w through every later run, minute
\* and deletion.
C19_MapperConvergence == [][C19_RunSettles /\ C19_StaysSettled]_vars

\* A pod has been deleted or replaced, every deferred deletion has fired,
\* and the run after that has mapped the service to the one workload whose
\* labels are left to contain its selectors.
C19_Witness ==
    /\ lastRun.ran
    /\ pending = {}
    /\ ~onlyAdds
    /\ Cardinality(DOMAIN pods) = 1
    /\ \E s \in C19_Services : \E w \in C19_Workloads :
           /\ C19_Settled(s, w)
           /\ lastRun.workloads[s] = {w}

(***************************************************************************)
(* A run that finds several workloads for a service.                       *)
(***************************************************************************)
\* The workloads a run starting now collects for s, from the stored
\* selectors and labels.
C20_Matches(s) ==
    {w \in DOMAIN workloadAndNamespaceToLabels : C4_Contained(s, w)}

C20_DeletionsOf(s, sleeping) ==
    {d \in sleeping : d.m = "serviceToWorkload" /\ d.k = s}

C20_LeftAlone ==
    C19_RunStep
        => \A s \in DOMAIN serviceAndNamespaceToSelectors :
               Cardinality(C20_Matches(s)) > 1
                   => /\ Has(serviceToWorkload', s) <=> Has(serviceToWorkload, s)
                      /\ Has(serviceToWorkload, s)
                         => serviceToWorkload'[s] = serviceToWorkload[s]
                      /\ C20_DeletionsOf(s, pending')
                             = C20_DeletionsOf(s, pending)

\* C20: a mapper run that collects more than one workload for a service s
\* leaves serviceToWorkload[s] as it finds it, stored with the same value or
\* absent, and starts no deletion of it.
C20_AmbiguousRunLeavesMapping == [][C20_LeftAlone]_vars

\* A run has just collected two workloads for a service that an earlier run
\* had mapped to one of them: the mapping is still there.
C20_Witness ==
    /\ lastRun.ran
    /\ \E s \in DOMAIN lastRun.workloads :
           /\ Cardinality(lastRun.workloads[s]) = 2
           /\ Has(serviceToWorkload, s)
           /\ serviceToWorkload[s] \in lastRun.workloads[s]
           /\ C20_DeletionsOf(s, pending) = {}

(***************************************************************************)
(* Who touches workloadPodCount.                                           *)
(***************************************************************************)
C21_HandlerWrites == workloadPodCount' # workloadPodCount

\* C21: workloadPodCount is read and written by the pod informer's handlers
\* only: no handler writes it while another goroutine, the mapper, the loop
\* of debugPrint or a caller of GetWorkloadAndNamespaceByIP, is reading it.
C21_CountConfined == [][C21_HandlerWrites => life.debug # "dump"]_vars

(***************************************************************************)
(* The labels of a workload.                                               *)
(***************************************************************************)
\* The labels stored for w after a step; none stored counts as no labels.
C22_LabelsAfter(w) ==
    IF Has(workloadAndNamespaceToLabels', w)
    THEN workloadAndNamespaceToLabels'[w]
    ELSE {}

\* C22: the Add or Update of a pod with a derived workload w leaves in
\* workloadAndNamespaceToLabels[w] the labels of that pod and no others,
\* also when the pod has no labels.
C22_LabelOverwrite ==
    [][\A key \in C14_Delivered :
           LET pod == pods'[key]
               w == getWorkloadAndNamespace(pod)
           IN w # ""
              => C22_LabelsAfter(w)
                     = {kv[1] \o "=" \o kv[2] : kv \in pod.labels}]_vars

(***************************************************************************)
(* The labels of a workload without pods.                                  *)
(***************************************************************************)
\* A pod Delete takes one pod out of the informer's store.
C23_DeleteStep ==
    /\ budget' = budget - 1
    /\ DOMAIN pods' # DOMAIN pods
    /\ DOMAIN pods' \subseteq DOMAIN pods

\* The workloads whose count the step changes.
C23_Recounted ==
    {w \in DOMAIN workloadPodCount' :
        Count(workloadPodCount, w) # workloadPodCount'[w]}

\* The deletions of labels that the step starts.
C23_LabelsScheduled ==
    {d \in pending' \ pending : d.m = "workloadAndNamespaceToLabels"}

C23_AtZero ==
    C23_DeleteStep
        => /\ \A w \in C23_Recounted :
                  workloadPodCount'[w] = 0
                      => \E d \in pending' :
                             /\ d.m = "workloadAndNamespaceToLabels"
                             /\ d.k = w
                             /\ d.age = 0
                             /\ d.by = "PodDelete"
           /\ \A d \in C23_LabelsScheduled :
                  /\ d.k \in C23_Recounted
                  /\ workloadPodCount'[d.k] = 0

\* C23: a pod Delete that brings workloadPodCount[w] to 0 schedules, in the
\* same handler, the deferred deletion of workloadAndNamespaceToLabels[w];
\* a pod Delete that leaves the count at another value schedules none.
C23_LabelsScheduledAtZero == [][C23_AtZero]_vars

\* The last pod of a workload has just been deleted: the count is 0 and the
\* deletion of the labels, the only one of its kind, has begun to sleep.
C23_Witness ==
    /\ pods = EmptyMap
    /\ \E w \in DOMAIN workloadPodCount :
           /\ workloadPodCount[w] = 0
           /\ \E d \in pending :
                  /\ d.m = "workloadAndNamespaceToLabels" /\ d.k = w
                  /\ d.age = 0 /\ d.by = "PodDelete" /\ d.first
           /\ \A d, e \in pending :
                  /\ d.m = "workloadAndNamespaceToLabels"
                  /\ e.m = "workloadAndNamespaceToLabels"
                  => d = e

(***************************************************************************)
(* The sign of the pod count.                                              *)
(***************************************************************************)
\* C24: whatever pod events have been delivered, an Add first and at most
\* one Delete for each pod, Updates in between that may change its owner
\* references, no workload has a count below 0.
C24_CountNeverNegative ==
    \A w \in DOMAIN workloadPodCount : workloadPodCount[w] >= 0

(***************************************************************************)
(* Whose workload the pod path answers with.                               *)
(***************************************************************************)
\* The pods of the informer's store that have e as an endpoint.
C25_LivePodsAt(e) == {key \in DOMAIN pods : e \in C18_Endpoints(pods[key])}

\* The answer of GetWorkloadAndNamespaceByIP(e) comes from the two pod maps.
C25_PodPath(e) ==
    /\ Has(ipToPod, e)
    /\ Has(podToWorkloadAndNamespace, ipToPod[e])

\* C25: when GetWorkloadAndNamespaceByIP(e) answers (w, n) from ipToPod and
\* podToWorkloadAndNamespace, the pod that has the endpoint e has the derived
\* workload w and the namespace n; events of a pod of the same name in
\* another namespace do not change the answer.  Stated for an endpoint that
\* exactly one live pod has.
C25_AnswerOfTheRightPod ==
    \A e \in DOMAIN ipToPod :
        C25_PodPath(e) /\ Cardinality(C25_LivePodsAt(e)) = 1
            => \A key \in C25_LivePodsAt(e) :
                   /\ ResolveByIP(e)[3]
                   /\ ResolveByIP(e)[2] = pods[key].namespace
                   /\ attachNamespace(ResolveByIP(e)[1], ResolveByIP(e)[2])
                          = getWorkloadAndNamespace(pods[key])

(***************************************************************************)
(* The mapping of a deleted service.                                       *)
(***************************************************************************)
\* The services of the informer's store, as the indexes name them.
C26_LiveServices ==
    {getServiceAndNamespace(services[key]) : key \in DOMAIN services}

\* Something is under way that removes serviceToWorkload[s]: its deferred
\* deletion sleeps, or the mapper still visits s, finding its selectors.
C26_OnItsWayOut(s) ==
    \/ \E d \in pending : d.m = "serviceToWorkload" /\ d.k = s
    \/ Has(serviceAndNamespaceToSelectors, s)

\* C26: a service that has been deleted and not added again does not stay in
\* serviceToWorkload for ever: as long as it is there, its removal is under
\* way; and its entries of ipToServiceAndNamespace and of
\* serviceAndNamespaceToSelectors go as well.
C26_DeletedServiceUnmapped ==
    \A s \in DOMAIN serviceToWorkload :
        s \notin C26_LiveServices => C26_OnItsWayOut(s)

(***************************************************************************)
(* The indexes of an updated service.                                      *)
(***************************************************************************)
\* The services a step replaces in the informer's store.
C27_Updated ==
    {key \in DOMAIN services' :
        Has(services, key) /\ services[key] # services'[key]}

C27_Current(service) ==
    LET s == service.name \o "@" \o service.namespace
        selectors == {kv[1] \o "=" \o kv[2] : kv \in service.selector}
    IN /\ \A ip \in DOMAIN ipToServiceAndNamespace' :
              ipToServiceAndNamespace'[ip] = s => ip = service.clusterIP
       /\ IF selectors = {}
          THEN ~Has(serviceAndNamespaceToSelectors', s)
          ELSE /\ Has(serviceAndNamespaceToSelectors', s)
               /\ serviceAndNamespaceToSelectors'[s] = selectors

\* C27: after the Update of a service, ipToServiceAndNamespace maps to it no
\* ClusterIP other than the one it has now, and
\* serviceAndNamespaceToSelectors holds for it the selectors it has now, or
\* nothing when it has none.
C27_ServiceIndexesCurrent ==
    [][\A key \in C27_Updated : C27_Current(services'[key])]_vars

====
